---- MODULE Spec2Model ----
(***************************************************************************)
(* A model of htmx-go: the SwapStrategy expression builder (swap.go), the  *)
(* Response builder that carries it to a response writer (response.go and  *)
(* the response header methods), and the request functions (request.go).   *)
(*                                                                         *)
(* A Go string is modelled as a sequence of one-character strings, so that *)
(* strings.Split, strings.HasPrefix, strings.Join and strings.TrimSpace    *)
(* are computed character by character, as the library computes them.      *)
(* A time.Duration is modelled as a whole number of milliseconds.          *)
(***************************************************************************)
EXTENDS Integers, Sequences, FiniteSets, TLC

VARIABLES
    base,       \* the exported SwapStrategy constant every caller derives from
    val,        \* val[c]: the SwapStrategy value caller c holds
    chain,      \* chain[c]: the method calls caller c made, each with its receiver
    panicked,   \* TRUE once a call has panicked
    limit,      \* the number of calls the callers make in this run
    durations,  \* the durations the callers pass in this run
    selectors,  \* the CSS selectors the callers pass in this run
    resp,       \* the Response value the handler holds
    headerMaps, \* the header maps made so far; a Response refers to one of them
    w,          \* the http.ResponseWriter the handler writes to
    rcalls,     \* the Response methods the handler called, in order
    orig,       \* the Response a clone was made of, once Clone has been called
    returned,   \* the map the last call of Headers returned, 0 before any call
    arrays,     \* the arrays made so far for the trigger slices
    derived,    \* the Responses derived from resp that the handler holds as well
    rlimit,     \* the number of Response methods the handler calls in this run
    triggerArgs, \* the trigger lists the handler passes in this run
    contexts,   \* the location contexts the handler passes in this run
    req,        \* the request the handler reads: its header lines and its Header
    got         \* what the request functions called so far have returned

swapVars == <<base, val, chain, panicked, limit, durations, selectors>>
handlerParams == <<rlimit, triggerArgs, contexts>>
sliceVars == <<arrays, derived>>
respVars == <<resp, headerMaps, w, rcalls, orig, returned, sliceVars, handlerParams>>
reqVars == <<req, got>>
vars == <<swapVars, respVars, reqVars>>

---------------------------------------------------------------------------
(* Bounds of the model *)

\* The number of modifier calls made on one base strategy.
MaxOps == 3

\* The longest duration passed to After and SettleAfter, in seconds.
MaxSeconds == 120

\* The number of modifier calls two callers make on one shared base strategy.
MaxSharedOps == 2

\* The number of Response methods a handler calls.
MaxRespCalls == 3

\* The number of header-setting methods a handler calls on one Response.
MaxHeaderCalls == 3

\* The number of calls of a handler that sets a location, and the number of
\* fields set in the location contexts it passes.
MaxLocationCalls == 2
MaxFields == 2

\* The number of trigger methods called by a handler that derives Responses
\* from the one it builds.
MaxDerivedCalls == 5

\* The number of steps of a handler that has a package-level Response.
MaxGlobalCalls == 4

\* The number of builder methods a handler calls on one Response.
MaxFrameCalls == 3

\* The number of methods a handler calls on a Response whose Write fails.
MaxErrorCalls == 4

\* The number of methods a handler calls on a Response it renders.
MaxRenderCalls == 4

\* The number of values a request has for one header.
MaxValues == 2

\* The number of calls of AddTrigger, AddTriggerAfterSettle and
\* AddTriggerAfterSwap in one chain.
MaxTriggerCalls == 3

\* The number of calls of a handler that changes the map Headers returned.
MaxCopyCalls == 4

\* The number of methods a handler calls on a Response and its clone.
MaxCloneCalls == 4

---------------------------------------------------------------------------
(* Go's strings package, on sequences of characters *)

\* unicode.IsSpace, for the characters of the Latin-1 range
IsSpace(ch) == ch \in {" ", "\t", "\n", "\r", "\f"}

RECURSIVE TrimLeft(_)
TrimLeft(s) ==
    IF s # <<>> /\ IsSpace(Head(s)) THEN TrimLeft(Tail(s)) ELSE s

RECURSIVE TrimRight(_)
TrimRight(s) ==
    IF s # <<>> /\ IsSpace(s[Len(s)])
    THEN TrimRight(SubSeq(s, 1, Len(s) - 1))
    ELSE s

\* strings.TrimSpace: all leading and trailing white space removed
TrimSpace(s) == TrimRight(TrimLeft(s))

\* strings.HasPrefix
HasPrefix(s, prefix) ==
    /\ Len(s) >= Len(prefix)
    /\ \A i \in 1..Len(prefix) : s[i] = prefix[i]

\* strings.Index from position i on: the first place of ch in s, 0 if none
RECURSIVE IndexFrom(_, _, _)
IndexFrom(s, ch, i) ==
    IF i > Len(s) THEN 0
    ELSE IF s[i] = ch THEN i
    ELSE IndexFrom(s, ch, i + 1)

\* strings.Split(s, sep) for a separator of one character: the pieces of s
\* between the separators; always at least one piece, pieces may be empty.
RECURSIVE Split(_, _)
Split(s, sep) ==
    LET i == IndexFrom(s, sep[1], 1)
    IN  IF i = 0
        THEN <<s>>
        ELSE <<SubSeq(s, 1, i - 1)>> \o Split(SubSeq(s, i + 1, Len(s)), sep)

\* strings.Join
RECURSIVE Join(_, _)
Join(elems, sep) ==
    IF elems = <<>> THEN <<>>
    ELSE IF Len(elems) = 1 THEN elems[1]
    ELSE elems[1] \o sep \o Join(Tail(elems), sep)

---------------------------------------------------------------------------
(* swap.go: the base strategies *)

SwapInnerHTML   == <<"i", "n", "n", "e", "r", "H", "T", "M", "L">>
SwapOuterHTML   == <<"o", "u", "t", "e", "r", "H", "T", "M", "L">>
SwapBeforeBegin == <<"b", "e", "f", "o", "r", "e", "b", "e", "g", "i", "n">>
SwapAfterBegin  == <<"a", "f", "t", "e", "r", "b", "e", "g", "i", "n">>
SwapBeforeEnd   == <<"b", "e", "f", "o", "r", "e", "e", "n", "d">>
\* SwapAfterEnd as the README example has it, the same as SwapInnerHTML
SwapAfterEndAsInnerHTML == SwapInnerHTML
SwapAfterEnd    == <<"a", "f", "t", "e", "r", "e", "n", "d">>
SwapDelete      == <<"d", "e", "l", "e", "t", "e">>
SwapNone        == <<"n", "o", "n", "e">>
SwapDefault     == <<>>

BaseStrategies ==
    { SwapInnerHTML, SwapOuterHTML, SwapBeforeBegin, SwapAfterBegin,
      SwapBeforeEnd, SwapAfterEnd, SwapDelete, SwapNone, SwapDefault }

\* The modifier keys the methods pass as prefix
KeyTransition  == <<"t", "r", "a", "n", "s", "i", "t", "i", "o", "n">>
KeyIgnoreTitle == <<"i", "g", "n", "o", "r", "e", "T", "i", "t", "l", "e">>
KeyFocusScroll == <<"f", "o", "c", "u", "s", "S", "c", "r", "o", "l", "l">>
KeySwap        == <<"s", "w", "a", "p">>
KeySettle      == <<"s", "e", "t", "t", "l", "e">>
KeyScroll      == <<"s", "c", "r", "o", "l", "l">>
KeyShow        == <<"s", "h", "o", "w">>

ModifierKeys ==
    { KeyTransition, KeyIgnoreTitle, KeyFocusScroll, KeySwap, KeySettle,
      KeyScroll, KeyShow }

swapString(s) == s

\* join without the TrimSpace: the separators strings.Join puts before the
\* first non-empty element stay
joinUntrimmed(elems) == Join(elems, <<" ">>)

\* join(elems...): the elements joined with a space, the result trimmed
join(elems) == TrimSpace(Join(elems, <<" ">>))

\* cutPrefix with the comparison of a slip: only a word that is exactly
\* "prefix:" is dropped, so an earlier "prefix:value" word stays
cutPrefixKeepsValues(s, prefix) ==
    LET words == Split(swapString(s), <<" ">>)
        filteredWords ==
            [i \in 1..Len(words) |-> <<>>]
                \o SelectSeq(words, LAMBDA word : word # prefix \o <<":">>)
    IN  join(filteredWords)

\* cutPrefix: filteredWords starts as len(words) empty strings (make with a
\* length, not a capacity), the kept words are appended to it
cutPrefix(s, prefix) ==
    LET words == Split(swapString(s), <<" ">>)
        filteredWords ==
            [i \in 1..Len(words) |-> <<>>]
                \o SelectSeq(words, LAMBDA word : ~HasPrefix(word, prefix \o <<":">>))
    IN  join(filteredWords)

boolModifier(s, prefix, b) ==
    LET v == join(<<cutPrefix(s, prefix), prefix \o <<":">>>>)
    IN  IF b THEN v \o <<"t", "r", "u", "e">>
             ELSE v \o <<"f", "a", "l", "s", "e">>

---------------------------------------------------------------------------
(* time.Duration and its String method, as timeModifier uses it.  The unit  *)
(* of the model is the millisecond: a Duration that is a whole number of    *)
(* milliseconds has six zero low-order decimal digits of nanoseconds, which *)
(* fmtFrac omits, so those digits are not carried.                          *)

Millisecond == 1
Second      == 1000 * Millisecond
Minute      == 60 * Second
Hour        == 60 * Minute

Digit(d) == <<"0", "1", "2", "3", "4", "5", "6", "7", "8", "9">>[d + 1]

\* time.fmtInt: the decimal digits of v, "0" for zero
RECURSIVE fmtInt(_)
fmtInt(v) ==
    IF v < 10 THEN <<Digit(v)>>
    ELSE fmtInt(v \div 10) \o <<Digit(v % 10)>>

\* The digits fmtFrac has printed after looking at the i low-order digits of v
\* (print becomes true at the first non-zero digit, from the right)
RECURSIVE fracDigits(_, _)
fracDigits(v, i) ==
    IF i = 0 THEN <<>>
    ELSE LET rest == fracDigits(v, i - 1)
             digit == (v \div (10 ^ (i - 1))) % 10
         IN  IF rest # <<>> \/ digit # 0 THEN <<Digit(digit)>> \o rest ELSE <<>>

\* time.fmtFrac: the fraction of v/10^prec without trailing zeros, with its
\* decimal point unless the fraction is zero, and the value v/10^prec
fmtFrac(v, prec) ==
    LET digits == fracDigits(v, prec)
    IN  [text |-> IF digits = <<>> THEN <<>> ELSE <<".">> \o digits,
         v    |-> v \div (10 ^ prec)]

\* time.Duration.String
DurationString(d) ==
    LET neg  == d < 0
        u    == IF neg THEN 0 - d ELSE d
        sign == IF neg THEN <<"-">> ELSE <<>>
    IN  IF u < Second
        THEN IF u = 0
             THEN <<"0", "s">>
             ELSE \* at least a millisecond: the unit is "ms"
                  LET f == fmtFrac(u, 0)
                  IN  sign \o fmtInt(f.v) \o f.text \o <<"m", "s">>
        ELSE LET f    == fmtFrac(u, 3)
                 secs == fmtInt(f.v % 60) \o f.text \o <<"s">>
                 m    == f.v \div 60
                 mins == IF m > 0 THEN fmtInt(m % 60) \o <<"m">> ELSE <<>>
                 h    == m \div 60
                 hrs  == IF h > 0 THEN fmtInt(h) \o <<"h">> ELSE <<>>
             IN  sign \o hrs \o mins \o secs

timeModifier(s, prefix, duration) ==
    join(<<cutPrefix(s, prefix), prefix \o <<":">> \o DurationString(duration)>>)

---------------------------------------------------------------------------
(* swap.go: Direction.  A Direction is an interface value: one of the two   *)
(* values of the unexported type direction, or the nil interface.           *)

Top          == [type |-> "direction", value |-> <<"t", "o", "p">>]
Bottom       == [type |-> "direction", value |-> <<"b", "o", "t", "t", "o", "m">>]
NilDirection == [type |-> "nil", value |-> <<>>]

\* Calling dirString on the nil interface is a nil dereference: a panic
dirStringPanics(direction) == direction.type = "nil"

dirString(direction) == direction.value

---------------------------------------------------------------------------
(* swap.go: the modifier methods, as functions of the receiver *)

Transition(s, shouldTransition) == boolModifier(s, KeyTransition, shouldTransition)

IgnoreTitle(s, shouldIgnore) == boolModifier(s, KeyIgnoreTitle, shouldIgnore)

FocusScroll(s, shouldFocus) == boolModifier(s, KeyFocusScroll, shouldFocus)

After(s, duration) == timeModifier(s, KeySwap, duration)

SettleAfter(s, duration) == timeModifier(s, KeySettle, duration)

Scroll(s, direction) ==
    LET v   == cutPrefix(s, KeyScroll)
        mod == KeyScroll \o <<":">> \o dirString(direction)
    IN  join(<<v, mod>>)

\* ScrollOn with the prefix of ShowOn cut: an earlier scroll modifier stays
ScrollOnCutsShow(s, cssSelector, direction) ==
    LET v   == cutPrefix(s, KeyShow)
        mod == KeyScroll \o <<":">> \o cssSelector \o <<":">> \o dirString(direction)
    IN  join(<<v, mod>>)

ScrollOn(s, cssSelector, direction) ==
    LET v   == cutPrefix(s, KeyScroll)
        mod == KeyScroll \o <<":">> \o cssSelector \o <<":">> \o dirString(direction)
    IN  join(<<v, mod>>)

\* ScrollWindow with the modifier of Scroll: "window:" is left out
ScrollWindowWithoutWindow(s, direction) ==
    LET v   == cutPrefix(s, KeyScroll)
        mod == KeyScroll \o <<":">> \o dirString(direction)
    IN  join(<<v, mod>>)

ScrollWindow(s, direction) ==
    LET v   == cutPrefix(s, KeyScroll)
        mod == KeyScroll \o <<":", "w", "i", "n", "d", "o", "w", ":">> \o dirString(direction)
    IN  join(<<v, mod>>)

\* Show with the prefix of Scroll cut: the scroll modifier is removed and an
\* earlier show modifier stays
ShowCutsScroll(s, direction) ==
    LET v   == cutPrefix(s, KeyScroll)
        mod == KeyShow \o <<":">> \o dirString(direction)
    IN  join(<<v, mod>>)

Show(s, direction) ==
    LET v   == cutPrefix(s, KeyShow)
        mod == KeyShow \o <<":">> \o dirString(direction)
    IN  join(<<v, mod>>)

ShowOn(s, cssSelector, direction) ==
    LET v   == cutPrefix(s, KeyShow)
        mod == KeyShow \o <<":">> \o cssSelector \o <<":">> \o dirString(direction)
    IN  join(<<v, mod>>)

ShowWindow(s, direction) ==
    LET v   == cutPrefix(s, KeyShow)
        mod == KeyShow \o <<":", "w", "i", "n", "d", "o", "w", ":">> \o dirString(direction)
    IN  join(<<v, mod>>)

ShowNone(s) ==
    LET v   == cutPrefix(s, KeyShow)
        mod == KeyShow \o <<":", "n", "o", "n", "e">>
    IN  join(<<v, mod>>)

---------------------------------------------------------------------------
(* The callers.  Every caller starts from the same exported constant and    *)
(* chains modifier methods on the value it holds; a method's result becomes *)
(* the receiver of the caller's next call.                                  *)

\* The arguments the callers pass
Bools      == {TRUE, FALSE}
Durations  == {5 * Second, 500 * Millisecond}
Directions == {Top, Bottom, NilDirection}
Selectors  == { <<"#", "d", "i", "v">>,
                <<"a", " ", "s", "h", "o", "w", ":", "x">> }

\* A method call: the method's name and its arguments
Call(op, arg) == [op |-> op, arg |-> arg]

\* The chain of swap_test.go, "many modifiers"
AnotherDiv == <<"#", "a", "n", "o", "t", "h", "e", "r", "-", "d", "i", "v">>

ManyModifiers ==
    << Call("Transition", <<TRUE>>), Call("IgnoreTitle", <<TRUE>>),
       Call("FocusScroll", <<TRUE>>), Call("After", <<5 * Second>>),
       Call("SettleAfter", <<5 * Second>>), Call("Scroll", <<Top>>),
       Call("ScrollOn", <<AnotherDiv, Top>>), Call("ScrollWindow", <<Top>>),
       Call("Show", <<Top>>), Call("ShowOn", <<AnotherDiv, Top>>),
       Call("ShowWindow", <<Top>>), Call("ShowNone", <<>>) >>

\* The calls caller c has made, without their receivers
Calls(c) == [i \in 1..Len(chain[c]) |-> Call(chain[c][i].op, chain[c][i].arg)]

\* Caller c goes on with the chain of swap_test.go
FollowsManyModifiers(c, call) ==
    /\ base = SwapInnerHTML
    /\ Len(chain[c]) < Len(ManyModifiers)
    /\ Append(Calls(c), call) = SubSeq(ManyModifiers, 1, Len(chain[c]) + 1)

\* The selector of the call, if it has one, is one the callers pass
FreeSelector(call) ==
    call.op \in {"ScrollOn", "ShowOn"} => call.arg[1] \in selectors

\* The number of calls the callers in S have made
RECURSIVE TotalCalls(_)
TotalCalls(S) ==
    IF S = {} THEN 0
    ELSE LET c == CHOOSE x \in S : TRUE
         IN  Len(chain[c]) + TotalCalls(S \ {c})

\* Caller c may make another call, whichever it is: the program has not
\* crashed, and the calls stay within the run's limit or the chain is a part
\* of the one of swap_test.go
MayCallMore(c) ==
    /\ ~panicked
    /\ \/ TotalCalls(DOMAIN chain) < limit
       \/ /\ base = SwapInnerHTML
          /\ Len(chain[c]) < Len(ManyModifiers)
          /\ Calls(c) = SubSeq(ManyModifiers, 1, Len(chain[c]))

\* Caller c may make this call
MayCall(c, call) ==
    /\ MayCallMore(c)
    /\ \/ TotalCalls(DOMAIN chain) < limit /\ FreeSelector(call)
       \/ FollowsManyModifiers(c, call)

\* The call as one that writes its result into the receiver, so that every
\* caller holding the receiver's value sees the result
ReturnsIntoReceiver(c, call, result) ==
    /\ MayCall(c, call)
    /\ val' = [d \in DOMAIN val |-> IF val[d] = val[c] THEN result ELSE val[d]]
    /\ chain' = [chain EXCEPT ![c] =
                    Append(@, [op |-> call.op, arg |-> call.arg, recv |-> val[c]])]
    /\ UNCHANGED <<base, panicked, limit, durations, selectors, respVars, reqVars>>

\* The call returns result: the caller holds result; the receiver, a value,
\* is kept in the chain as it was
Returns(c, call, result) ==
    /\ MayCall(c, call)
    /\ val' = [val EXCEPT ![c] = result]
    /\ chain' = [chain EXCEPT ![c] =
                    Append(@, [op |-> call.op, arg |-> call.arg, recv |-> val[c]])]
    /\ UNCHANGED <<base, panicked, limit, durations, selectors, respVars, reqVars>>

\* The call panics: nothing is returned
Panics(c, call) ==
    /\ MayCall(c, call)
    /\ panicked' = TRUE
    /\ chain' = [chain EXCEPT ![c] =
                    Append(@, [op |-> call.op, arg |-> call.arg, recv |-> val[c]])]
    /\ UNCHANGED <<base, val, limit, durations, selectors, respVars, reqVars>>

CallTransition ==
    \E c \in DOMAIN val :
        /\ MayCallMore(c)
        /\ \E b \in Bools :
              Returns(c, Call("Transition", <<b>>), Transition(val[c], b))

CallIgnoreTitle ==
    \E c \in DOMAIN val :
        /\ MayCallMore(c)
        /\ \E b \in Bools :
              Returns(c, Call("IgnoreTitle", <<b>>), IgnoreTitle(val[c], b))

CallFocusScroll ==
    \E c \in DOMAIN val :
        /\ MayCallMore(c)
        /\ \E b \in Bools :
              Returns(c, Call("FocusScroll", <<b>>), FocusScroll(val[c], b))

CallAfter ==
    \E c \in DOMAIN val :
        /\ MayCallMore(c)
        /\ \E d \in durations :
              Returns(c, Call("After", <<d>>), After(val[c], d))

CallSettleAfter ==
    \E c \in DOMAIN val :
        /\ MayCallMore(c)
        /\ \E d \in durations :
              Returns(c, Call("SettleAfter", <<d>>), SettleAfter(val[c], d))

CallScroll ==
    \E c \in DOMAIN val :
        /\ MayCallMore(c)
        /\ \E dir \in Directions :
              IF dirStringPanics(dir)
              THEN Panics(c, Call("Scroll", <<dir>>))
              ELSE Returns(c, Call("Scroll", <<dir>>), Scroll(val[c], dir))

CallScrollOn ==
    \E c \in DOMAIN val :
        /\ MayCallMore(c)
        /\ \E sel \in selectors \cup {AnotherDiv}, dir \in Directions :
              IF dirStringPanics(dir)
              THEN Panics(c, Call("ScrollOn", <<sel, dir>>))
              ELSE Returns(c, Call("ScrollOn", <<sel, dir>>), ScrollOn(val[c], sel, dir))

CallScrollWindow ==
    \E c \in DOMAIN val :
        /\ MayCallMore(c)
        /\ \E dir \in Directions :
              IF dirStringPanics(dir)
              THEN Panics(c, Call("ScrollWindow", <<dir>>))
              ELSE Returns(c, Call("ScrollWindow", <<dir>>), ScrollWindow(val[c], dir))

CallShow ==
    \E c \in DOMAIN val :
        /\ MayCallMore(c)
        /\ \E dir \in Directions :
              IF dirStringPanics(dir)
              THEN Panics(c, Call("Show", <<dir>>))
              ELSE Returns(c, Call("Show", <<dir>>), Show(val[c], dir))

CallShowOn ==
    \E c \in DOMAIN val :
        /\ MayCallMore(c)
        /\ \E sel \in selectors \cup {AnotherDiv}, dir \in Directions :
              IF dirStringPanics(dir)
              THEN Panics(c, Call("ShowOn", <<sel, dir>>))
              ELSE Returns(c, Call("ShowOn", <<sel, dir>>), ShowOn(val[c], sel, dir))

CallShowWindow ==
    \E c \in DOMAIN val :
        /\ MayCallMore(c)
        /\ \E dir \in Directions :
              IF dirStringPanics(dir)
              THEN Panics(c, Call("ShowWindow", <<dir>>))
              ELSE Returns(c, Call("ShowWindow", <<dir>>), ShowWindow(val[c], dir))

CallShowNone ==
    \E c \in DOMAIN val :
        Returns(c, Call("ShowNone", <<>>), ShowNone(val[c]))

Next ==
    \/ CallTransition
    \/ CallIgnoreTitle
    \/ CallFocusScroll
    \/ CallAfter
    \/ CallSettleAfter
    \/ CallScroll
    \/ CallScrollOn
    \/ CallScrollWindow
    \/ CallShow
    \/ CallShowOn
    \/ CallShowWindow
    \/ CallShowNone

---------------------------------------------------------------------------
(* net/http: the header of a response writer.  A Header maps a canonical    *)
(* key to the list of the values set for it.                                *)

LowerCase == <<"a", "b", "c", "d", "e", "f", "g", "h", "i", "j", "k", "l", "m",
               "n", "o", "p", "q", "r", "s", "t", "u", "v", "w", "x", "y", "z">>
UpperCase == <<"A", "B", "C", "D", "E", "F", "G", "H", "I", "J", "K", "L", "M",
               "N", "O", "P", "Q", "R", "S", "T", "U", "V", "W", "X", "Y", "Z">>

ToUpper(ch) ==
    IF \E i \in DOMAIN LowerCase : LowerCase[i] = ch
    THEN UpperCase[CHOOSE i \in DOMAIN LowerCase : LowerCase[i] = ch]
    ELSE ch

ToLower(ch) ==
    IF \E i \in DOMAIN UpperCase : UpperCase[i] = ch
    THEN LowerCase[CHOOSE i \in DOMAIN UpperCase : UpperCase[i] = ch]
    ELSE ch

\* textproto.CanonicalMIMEHeaderKey, for a key of letters, digits and "-":
\* the first letter and every letter after a "-" in upper case, the rest in
\* lower case
CanonicalMIMEHeaderKey(s) ==
    [i \in 1..Len(s) |->
        IF i = 1 \/ s[i - 1] = "-" THEN ToUpper(s[i]) ELSE ToLower(s[i])]

\* The greatest of a non-empty set of numbers: the last of a set of places
Last(S) == CHOOSE i \in S : \A j \in S : j <= i

\* A Go map: a function on the keys it holds
EmptyMap == <<>>

\* m[k] = v
MapSet(m, k, v) == [x \in (DOMAIN m) \cup {k} |-> IF x = k THEN v ELSE m[x]]

\* http.Header.Set: the values of the canonical key are replaced by value
HeaderSet(header, key, value) ==
    MapSet(header, CanonicalMIMEHeaderKey(key), <<value>>)

\* http.Header.Get: the first value of the canonical key, "" if there is none
HeaderGet(header, key) ==
    LET k == CanonicalMIMEHeaderKey(key)
    IN  IF k \in DOMAIN header /\ header[k] # <<>> THEN header[k][1] ELSE <<>>

\* The response writer of response_test.go, as newMockResponseWriter makes
\* it.  events lists the calls made on the writer, in order, and body the
\* bytes written.
NewWriter ==
    [header |-> EmptyMap, statusCode |-> 0, events |-> <<>>, body |-> <<>>]

\* A call made on the writer
Event(op, arg) == [op |-> op, arg |-> arg]

\* mockResponseWriter.WriteHeader
WriteHeader(writer, statusCode) ==
    [writer EXCEPT !.statusCode = statusCode,
                   !.events = Append(@, Event("WriteHeader", statusCode))]

\* w.Header().Set(key, value)
WriterSet(writer, key, value) ==
    [writer EXCEPT !.header = HeaderSet(@, key, value),
                   !.events = Append(@, Event("Set", key))]

\* w.Write(bytes)
WriterWrite(writer, bytes) ==
    [writer EXCEPT !.body = @ \o bytes,
                   !.events = Append(@, Event("Write", bytes))]

---------------------------------------------------------------------------
(* encoding/json, as json.Marshal encodes the values the library passes:    *)
(* strings, maps from string to string, and values that cannot be encoded.  *)

\* The printable ASCII characters with the codes 32 to 95, in the order of
\* their codes
AsciiTo95 ==
    << " ", "!", "\"", "#", "$", "%", "&", "'", "(", ")", "*", "+",
       ",", "-", ".", "/", "0", "1", "2", "3", "4", "5", "6", "7",
       "8", "9", ":", ";", "<", "=", ">", "?", "@", "A", "B", "C",
       "D", "E", "F", "G", "H", "I", "J", "K", "L", "M", "N", "O",
       "P", "Q", "R", "S", "T", "U", "V", "W", "X", "Y", "Z", "[",
       "\\", "]", "^", "_" >>

\* The printable ASCII characters with the codes 97 to 126, in the order of
\* their codes
AsciiFrom97 ==
    << "a", "b", "c", "d", "e", "f", "g", "h", "i", "j", "k", "l",
       "m", "n", "o", "p", "q", "r", "s", "t", "u", "v", "w", "x",
       "y", "z", "{", "|", "}", "~" >>

\* The code of a printable ASCII character (the grave accent, 96, is not used)
Code(ch) ==
    IF \E i \in DOMAIN AsciiTo95 : AsciiTo95[i] = ch
    THEN 31 + (CHOOSE i \in DOMAIN AsciiTo95 : AsciiTo95[i] = ch)
    ELSE 96 + (CHOOSE i \in DOMAIN AsciiFrom97 : AsciiFrom97[i] = ch)

\* a < b for Go strings: the order of the bytes
StringLess(a, b) ==
    \/ /\ Len(a) < Len(b)
       /\ \A i \in 1..Len(a) : a[i] = b[i]
    \/ \E i \in 1..Len(a) :
          /\ i <= Len(b)
          /\ \A j \in 1..(i - 1) : a[j] = b[j]
          /\ Code(a[i]) < Code(b[i])

\* The strings of the set S in increasing order, as json.Marshal sorts the
\* keys of a map
RECURSIVE SortedKeys(_)
SortedKeys(S) ==
    IF S = {} THEN <<>>
    ELSE LET least == CHOOSE x \in S : \A y \in S \ {x} : StringLess(x, y)
         IN  <<least>> \o SortedKeys(S \ {least})

\* The JSON text of one character of a string: the quote and the backslash
\* are escaped with a backslash; <, > and & are written as the escapes
\* of their codes 3c, 3e and 26
jsonChar(ch) ==
    CASE ch = "\"" -> <<"\\", "\"">>
      [] ch = "\\" -> <<"\\", "\\">>
      [] ch = "<"  -> <<"\\", "u", "0", "0", "3", "c">>
      [] ch = ">"  -> <<"\\", "u", "0", "0", "3", "e">>
      [] ch = "&"  -> <<"\\", "u", "0", "0", "2", "6">>
      [] OTHER     -> <<ch>>

\* The JSON text of a string
RECURSIVE jsonEscape(_)
jsonEscape(s) ==
    IF s = <<>> THEN <<>> ELSE jsonChar(Head(s)) \o jsonEscape(Tail(s))

jsonString(s) == <<"\"">> \o jsonEscape(s) \o <<"\"">>

\* The members "key":text of a JSON object, for the keys in order
RECURSIVE jsonMembers(_, _)
jsonMembers(keys, texts) ==
    IF keys = <<>> THEN <<>>
    ELSE jsonString(Head(keys)) \o <<":">> \o texts[Head(keys)]
            \o (IF Len(keys) > 1 THEN <<",">> ELSE <<>>)
            \o jsonMembers(Tail(keys), texts)

\* The JSON object with the members texts[key], for the keys in order
jsonObject(keys, texts) == <<"{">> \o jsonMembers(keys, texts) \o <<"}">>

\* The JSON text of a map[string]string: its keys are sorted
jsonStringMap(m) ==
    jsonObject(SortedKeys(DOMAIN m), [k \in DOMAIN m |-> jsonString(m[k])])

\* The values passed as any: a string, a map[string]string, and a channel,
\* which json.Marshal cannot encode
StringValue(s) == [type |-> "string", value |-> s]
MapValue(m)    == [type |-> "map", value |-> m]
ChanValue      == [type |-> "chan", value |-> <<>>]

\* json.Marshal fails on the value
jsonFails(v) == v.type = "chan"

\* json.Marshal of a value that can be encoded
jsonValue(v) ==
    IF v.type = "string" THEN jsonString(v.value) ELSE jsonStringMap(v.value)

---------------------------------------------------------------------------
(* header.go, response.go and the response header methods: the Response.    *)
(* A Response is a struct passed by value; its headers field refers to a    *)
(* map, which the copies of the struct share.                               *)

HeaderTrigger            == <<"H", "X", "-", "T", "r", "i", "g", "g", "e", "r">>
HeaderReswap             == <<"H", "X", "-", "R", "e", "s", "w", "a", "p">>
HeaderRetarget           == <<"H", "X", "-", "R", "e", "t", "a", "r", "g", "e", "t">>
HeaderTriggerAfterSettle == HeaderTrigger \o <<"-", "A", "f", "t", "e", "r", "-", "S", "e", "t", "t", "l", "e">>
HeaderTriggerAfterSwap   == HeaderTrigger \o <<"-", "A", "f", "t", "e", "r", "-", "S", "w", "a", "p">>
HeaderLocation           == <<"H", "X", "-", "L", "o", "c", "a", "t", "i", "o", "n">>
HeaderPushURL            == <<"H", "X", "-", "P", "u", "s", "h", "-", "U", "r", "l">>
HeaderRedirect           == <<"H", "X", "-", "R", "e", "d", "i", "r", "e", "c", "t">>
HeaderRefresh            == <<"H", "X", "-", "R", "e", "f", "r", "e", "s", "h">>
HeaderReplaceUrl         == <<"H", "X", "-", "R", "e", "p", "l", "a", "c", "e", "-", "U", "r", "l">>
HeaderReselect           == <<"H", "X", "-", "R", "e", "s", "e", "l", "e", "c", "t">>

trueString  == <<"t", "r", "u", "e">>
falseString == <<"f", "a", "l", "s", "e">>

StatusStopPolling == 286

\* A slice: its array (an index of the arrays made, 0 when it has none), its
\* length and its capacity.  A nil slice, and the empty slice
\* make([]EventTrigger, 0) gives.
NilSlice   == [isNil |-> TRUE, array |-> 0, len |-> 0, cap |-> 0]
EmptySlice == [isNil |-> FALSE, array |-> 0, len |-> 0, cap |-> 0]

\* The elements of the slice s, the arrays being arrs, and as they are now
ElemsIn(s, arrs) ==
    IF s.array = 0 THEN <<>> ELSE SubSeq(arrs[s.array], 1, s.len)
Elems(s) == ElemsIn(s, arrays)

\* The zero value of EventTrigger, an interface: what a place of an array
\* holds before it is assigned
NilTrigger == [type |-> "nil"]

\* The capacity append gives the array it makes (growslice of the Go
\* runtime, for a capacity below 256 and elements of two words): the length
\* needed when that is more than twice the old capacity, twice the old
\* capacity otherwise
growslice(oldCap, newLen) ==
    IF newLen > 2 * oldCap THEN newLen ELSE 2 * oldCap

\* append(s, elems...): the slice returned and the arrays after the call.
\* With room in the array of s the elements are assigned to the places
\* after the length of s, in that array; without room an array is made,
\* and the elements of s and the new ones are assigned to it
append(s, elems, arrs) ==
    LET newLen == s.len + Len(elems)
        newCap == growslice(s.cap, newLen)
    IN  IF elems = <<>> THEN [slice |-> s, arrays |-> arrs]
        ELSE IF newLen <= s.cap
        THEN [slice  |-> [s EXCEPT !.len = newLen],
              arrays |-> [arrs EXCEPT ![s.array] =
                            [i \in 1..s.cap |->
                                IF i > s.len /\ i <= newLen
                                THEN elems[i - s.len] ELSE @[i]]]]
        ELSE [slice  |-> [s EXCEPT !.array = Len(arrs) + 1, !.len = newLen,
                                   !.cap = newCap],
              arrays |-> Append(arrs,
                            [i \in 1..newCap |->
                                IF i <= s.len THEN arrs[s.array][i]
                                ELSE IF i <= newLen THEN elems[i - s.len]
                                ELSE NilTrigger])]

\* NewResponse, its header map being the map id of headerMaps
NewResponse(id) ==
    [headers |-> id, statusCode |-> 0, triggers |-> NilSlice,
     triggersAfterSettle |-> NilSlice, triggersAfterSwap |-> NilSlice,
     locationWithContextErr |-> <<>>]

\* The assignment of a Response as one that gives the copy a header map of
\* its own
ValueCopyOwnMap(r, maps) ==
    [response |-> [r EXCEPT !.headers = Len(maps) + 1],
     maps |-> Append(maps, maps[r.headers])]

\* The assignment of a Response value (copy := r, or r as the receiver of a
\* method): the copy has the fields of r, and its headers field is the same
\* map as that of r.  No map is made.
ValueCopy(r, maps) ==
    [response |-> r, maps |-> maps]

\* Clone as a method that returns a Response with the header map of the
\* receiver
CloneSharingMap(r, maps) ==
    [response |-> NewResponse(r.headers), maps |-> maps]

\* Clone: the Response returned, and the header maps after the call.  The
\* Response returned is a new one, with a new map that holds the headers of
\* the receiver.
Clone(r, maps) ==
    [response |-> NewResponse(Len(maps) + 1),
     maps |-> Append(maps, maps[r.headers])]

\* StatusCode: the value returned
StatusCode(r, statusCode) == [r EXCEPT !.statusCode = statusCode]

\* Reswap as a method that stores the base strategy without its modifiers
ReswapBaseOnly(headers, s) ==
    MapSet(headers, HeaderReswap, Split(swapString(s), <<" ">>)[1])

\* Reswap: the header map of the receiver after the call
Reswap(headers, s) == MapSet(headers, HeaderReswap, swapString(s))

\* Retarget: the header map of the receiver after the call
Retarget(headers, cssSelector) == MapSet(headers, HeaderRetarget, cssSelector)

\* Location: the header map of the receiver after the call
Location(headers, path) == MapSet(headers, HeaderLocation, path)

\* A LocationContext with no field set
NoContext ==
    [Source |-> <<>>, Event |-> <<>>, Handler |-> <<>>, Target |-> <<>>,
     Swap |-> <<>>, Values |-> EmptyMap, Headers |-> EmptyMap, Select |-> <<>>]

\* The internal locationContext with a Select field that has no omitempty
locationContextSelectKept(path, ctx) ==
    << <<<<"p", "a", "t", "h">>, jsonString(path), FALSE>>,
       <<<<"s", "o", "u", "r", "c", "e">>, jsonString(ctx.Source), ctx.Source = <<>> >>,
       <<<<"e", "v", "e", "n", "t">>, jsonString(ctx.Event), ctx.Event = <<>> >>,
       <<<<"h", "a", "n", "d", "l", "e", "r">>, jsonString(ctx.Handler), ctx.Handler = <<>> >>,
       <<<<"t", "a", "r", "g", "e", "t">>, jsonString(ctx.Target), ctx.Target = <<>> >>,
       <<<<"s", "w", "a", "p">>, jsonString(swapString(ctx.Swap)), swapString(ctx.Swap) = <<>> >>,
       <<<<"v", "a", "l", "u", "e", "s">>, jsonStringMap(ctx.Values), DOMAIN ctx.Values = {} >>,
       <<<<"h", "e", "a", "d", "e", "r", "s">>, jsonStringMap(ctx.Headers), DOMAIN ctx.Headers = {} >>,
       <<<<"s", "e", "l", "e", "c", "t">>, jsonString(ctx.Select), FALSE >> >>

\* The internal locationContext LocationWithContext builds: the fields in
\* the order of the struct, each with its JSON name, its encoding, and
\* whether omitempty leaves it out
locationContext(path, ctx) ==
    << <<<<"p", "a", "t", "h">>, jsonString(path), FALSE>>,
       <<<<"s", "o", "u", "r", "c", "e">>, jsonString(ctx.Source), ctx.Source = <<>> >>,
       <<<<"e", "v", "e", "n", "t">>, jsonString(ctx.Event), ctx.Event = <<>> >>,
       <<<<"h", "a", "n", "d", "l", "e", "r">>, jsonString(ctx.Handler), ctx.Handler = <<>> >>,
       <<<<"t", "a", "r", "g", "e", "t">>, jsonString(ctx.Target), ctx.Target = <<>> >>,
       <<<<"s", "w", "a", "p">>, jsonString(swapString(ctx.Swap)), swapString(ctx.Swap) = <<>> >>,
       <<<<"v", "a", "l", "u", "e", "s">>, jsonStringMap(ctx.Values), DOMAIN ctx.Values = {} >>,
       <<<<"h", "e", "a", "d", "e", "r", "s">>, jsonStringMap(ctx.Headers), DOMAIN ctx.Headers = {} >>,
       <<<<"s", "e", "l", "e", "c", "t">>, jsonString(ctx.Select), ctx.Select = <<>> >> >>

\* json.Marshal of a locationContext.  Its fields are strings and maps from
\* string to string, which json.Marshal always encodes.
locationContextJSON(path, ctx) ==
    LET kept == SelectSeq(locationContext(path, ctx), LAMBDA f : ~f[3])
        names == [i \in 1..Len(kept) |-> kept[i][1]]
    IN  jsonObject(names,
                   [k \in {names[i] : i \in 1..Len(kept)} |->
                       kept[CHOOSE i \in 1..Len(kept) : names[i] = k][2]])

\* LocationWithContext: the value returned.  The error slice is replaced by
\* an empty one and, json.Marshal returning no error, nothing is appended.
LocationWithContextErr(r) == [r EXCEPT !.locationWithContextErr = <<>>]

\* LocationWithContext: the header map of the receiver after the call
LocationWithContext(headers, path, ctx) ==
    MapSet(headers, HeaderLocation, locationContextJSON(path, ctx))

\* PushURL: the header map of the receiver after the call
PushURL(headers, url) == MapSet(headers, HeaderPushURL, url)

\* PreventPushURL as a method that leaves a URL already pushed in place
PreventPushURLKeepsURL(headers) ==
    IF HeaderPushURL \in DOMAIN headers THEN headers
    ELSE MapSet(headers, HeaderPushURL, falseString)

\* PreventPushURL: the header map of the receiver after the call
PreventPushURL(headers) == MapSet(headers, HeaderPushURL, falseString)

\* Redirect: the header map of the receiver after the call
Redirect(headers, path) == MapSet(headers, HeaderRedirect, path)

\* Refresh: the header map of the receiver after the call
Refresh(headers, shouldRefresh) ==
    IF shouldRefresh THEN MapSet(headers, HeaderRefresh, trueString)
    ELSE MapSet(headers, HeaderRefresh, falseString)

\* ReplaceURL: the header map of the receiver after the call
ReplaceURL(headers, url) == MapSet(headers, HeaderReplaceUrl, url)

\* PreventReplaceURL as a method that prevents the push of the URL as well
PreventReplaceAndPushURL(headers) ==
    MapSet(MapSet(headers, HeaderReplaceUrl, falseString), HeaderPushURL, falseString)

\* PreventReplaceURL: the header map of the receiver after the call
PreventReplaceURL(headers) == MapSet(headers, HeaderReplaceUrl, falseString)

\* Reselect: the header map of the receiver after the call
Reselect(headers, cssSelector) == MapSet(headers, HeaderReselect, cssSelector)

\* Trigger: an event trigger with no details
Trigger(eventName) == [type |-> "triggerPlain", eventName |-> eventName]

\* TriggerDetail: an event trigger with one detail string
TriggerDetail(eventName, detailValue) ==
    [type |-> "triggerDetail", eventName |-> eventName, value |-> detailValue]

\* TriggerObject: an event trigger with a detail value of any type
TriggerObject(eventName, detailObject) ==
    [type |-> "triggerObject", eventName |-> eventName, object |-> detailObject]

\* initTriggers: the triggers slice is made if it is nil
initTriggers(r) ==
    IF r.triggers.isNil THEN [r EXCEPT !.triggers = EmptySlice] ELSE r

\* AddTrigger as a method that keeps the triggers of the last call only
AddTriggerReplacing(r, trigger, arrs) ==
    [response |-> [r EXCEPT !.triggers = append(EmptySlice, trigger, arrs).slice],
     arrays   |-> append(EmptySlice, trigger, arrs).arrays]

\* AddTrigger: the value returned, and the arrays after the call
AddTrigger(r, trigger, arrs) ==
    [response |-> [r EXCEPT !.triggers =
                      append(initTriggers(r).triggers, trigger, arrs).slice],
     arrays   |-> append(initTriggers(r).triggers, trigger, arrs).arrays]

\* initTriggersAfterSettle: the slice is made if it is nil
initTriggersAfterSettle(r) ==
    IF r.triggersAfterSettle.isNil
    THEN [r EXCEPT !.triggersAfterSettle = EmptySlice] ELSE r

\* AddTriggerAfterSettle: the value returned, and the arrays after the call
AddTriggerAfterSettle(r, trigger, arrs) ==
    [response |-> [r EXCEPT !.triggersAfterSettle =
                      append(initTriggersAfterSettle(r).triggersAfterSettle,
                             trigger, arrs).slice],
     arrays   |-> append(initTriggersAfterSettle(r).triggersAfterSettle,
                         trigger, arrs).arrays]

\* initTriggersAfterSwap: the slice is made if it is nil
initTriggersAfterSwap(r) ==
    IF r.triggersAfterSwap.isNil
    THEN [r EXCEPT !.triggersAfterSwap = EmptySlice] ELSE r

\* AddTriggerAfterSwap: the value returned, and the arrays after the call
AddTriggerAfterSwap(r, trigger, arrs) ==
    [response |-> [r EXCEPT !.triggersAfterSwap =
                      append(initTriggersAfterSwap(r).triggersAfterSwap,
                             trigger, arrs).slice],
     arrays   |-> append(initTriggersAfterSwap(r).triggersAfterSwap,
                         trigger, arrs).arrays]

\* triggersToString: the names of the plain triggers, in order
simpleEvents(triggers) ==
    LET plain == SelectSeq(triggers, LAMBDA trig : trig.type = "triggerPlain")
    IN  [i \in 1..Len(plain) |-> plain[i].eventName]

\* triggersToString: the map of the triggers with details after the first
\* loop.  An assignment to a name that is in the map replaces its value.
detailEvents(triggers) ==
    LET det == SelectSeq(triggers, LAMBDA trig : trig.type # "triggerPlain")
        at(n) == det[Last({i \in 1..Len(det) : det[i].eventName = n})]
    IN  [n \in {det[i].eventName : i \in 1..Len(det)} |->
            IF at(n).type = "triggerDetail" THEN StringValue(at(n).value)
            ELSE at(n).object]

\* triggersToString: the map that is encoded, every plain event assigned
\* the empty string
allEvents(triggers) ==
    LET simple == simpleEvents(triggers)
        names  == {simple[i] : i \in 1..Len(simple)}
        detail == detailEvents(triggers)
    IN  [n \in names \cup DOMAIN detail |->
            IF n \in names THEN StringValue(<<>>) ELSE detail[n]]

\* triggersToString returns an error
triggersToStringFails(triggers) ==
    /\ DOMAIN detailEvents(triggers) # {}
    /\ \E n \in DOMAIN allEvents(triggers) : jsonFails(allEvents(triggers)[n])

\* triggersToString as a function that encodes an object in every case
triggersToStringObject(triggers) ==
    LET all == allEvents(triggers)
    IN  jsonObject(SortedKeys(DOMAIN all),
                   [n \in DOMAIN all |-> jsonValue(all[n])])

\* triggersToString: the string returned when there is no error
triggersToString(triggers) ==
    IF DOMAIN detailEvents(triggers) = {}
    THEN Join(simpleEvents(triggers), <<",", " ">>)
    ELSE LET all == allEvents(triggers)
         IN  jsonObject(SortedKeys(DOMAIN all),
                        [n \in DOMAIN all |-> jsonValue(all[n])])

\* Headers returns an error: the triggers of a slice that is not nil cannot
\* be encoded
HeadersFails(r) ==
    \/ ~r.triggers.isNil /\ triggersToStringFails(Elems(r.triggers))
    \/ ~r.triggersAfterSettle.isNil
            /\ triggersToStringFails(Elems(r.triggersAfterSettle))
    \/ ~r.triggersAfterSwap.isNil
            /\ triggersToStringFails(Elems(r.triggersAfterSwap))

\* Headers: a copy of the header map of r, with the trigger headers of the
\* trigger slices that are not nil
Headers(r) ==
    LET m  == headerMaps[r.headers]
        m1 == IF ~r.triggers.isNil
              THEN MapSet(m, HeaderTrigger, triggersToString(Elems(r.triggers)))
              ELSE m
        m2 == IF ~r.triggersAfterSettle.isNil
              THEN MapSet(m1, HeaderTriggerAfterSettle,
                          triggersToString(Elems(r.triggersAfterSettle)))
              ELSE m1
    IN  IF ~r.triggersAfterSwap.isNil
        THEN MapSet(m2, HeaderTriggerAfterSwap,
                    triggersToString(Elems(r.triggersAfterSwap)))
        ELSE m2

\* Headers as a method that adds the trigger headers to the header map of
\* the receiver and returns that map
HeadersWithoutCopy(r, maps) ==
    IF HeadersFails(r) THEN [map |-> 0, maps |-> maps]
    ELSE [map |-> r.headers, maps |-> [maps EXCEPT ![r.headers] = Headers(r)]]

\* Headers: the map returned, 0 being the nil map returned with an error,
\* and the maps after the call.  The map returned is a new one.
HeadersMap(r, maps) ==
    IF HeadersFails(r) THEN [map |-> 0, maps |-> maps]
    ELSE [map |-> Len(maps) + 1, maps |-> Append(maps, Headers(r))]

\* delete(m, k)
MapDelete(m, k) == [x \in (DOMAIN m) \ {k} |-> m[x]]

\* Write returns an error: a LocationWithContext error was recorded, or
\* Headers returns an error
WriteFails(r) ==
    \/ Len(r.locationWithContextErr) > 0
    \/ HeadersFails(r)

\* The loop of Write: headerWriter.Set(k, v) for every header of m.  The
\* keys of m are distinct header names, so the header that results does not
\* depend on the order in which range visits them.
RECURSIVE SetAll(_, _)
SetAll(writer, m) ==
    IF DOMAIN m = {} THEN writer
    ELSE LET k == CHOOSE x \in DOMAIN m : TRUE
         IN  SetAll(WriterSet(writer, k, m[k]), [x \in (DOMAIN m) \ {k} |-> m[x]])

\* Write as a method that sets the headers of the header map before it
\* looks at the errors
WriteBeforeErrors(r, writer) ==
    IF WriteFails(r) THEN SetAll(writer, headerMaps[r.headers])
    ELSE LET set == SetAll(writer, Headers(r))
         IN  IF r.statusCode # 0 THEN WriteHeader(set, r.statusCode) ELSE set

\* Write as a method that calls WriteHeader before it sets the headers
WriteHeaderFirst(r, writer) ==
    IF WriteFails(r) THEN writer
    ELSE SetAll(IF r.statusCode # 0 THEN WriteHeader(writer, r.statusCode)
                ELSE writer,
                Headers(r))

\* Write: the response writer after the call
Write(r, writer) ==
    IF WriteFails(r) THEN writer
    ELSE LET set == SetAll(writer, Headers(r))
         IN  IF r.statusCode # 0 THEN WriteHeader(set, r.statusCode) ELSE set

\* RenderHTML as a method that writes the body before the headers
RenderHTMLBodyFirst(r, writer, html) ==
    IF WriteFails(r) THEN writer
    ELSE Write(r, WriterWrite(writer, html))

\* RenderHTML: the response writer after the call
RenderHTML(r, writer, html) ==
    IF WriteFails(r) THEN writer
    ELSE WriterWrite(Write(r, writer), html)

\* RenderHTML: the values returned, err being whether the error is not nil.
\* With an error of Write the count is 0; otherwise the values are those of
\* w.Write, which the writer of response_test.go returns as (0, nil).
RenderHTMLReturns(r) ==
    IF WriteFails(r) THEN [n |-> 0, err |-> TRUE]
    ELSE [n |-> 0, err |-> FALSE]

---------------------------------------------------------------------------
(* header.go and request.go: the request.  A request is modelled by the     *)
(* header lines the client sent; the server reads them into the Header of   *)
(* the http.Request, under canonical keys.                                  *)

HeaderBoosted               == <<"H", "X", "-", "B", "o", "o", "s", "t", "e", "d">>
HeaderCurrentURL            == <<"H", "X", "-", "C", "u", "r", "r", "e", "n", "t", "-", "U", "R", "L">>
HeaderHistoryRestoreRequest == <<"H", "X", "-", "H", "i", "s", "t", "o", "r", "y", "-", "R", "e", "s", "t", "o", "r", "e", "-", "R", "e", "q", "u", "e", "s", "t">>
HeaderPrompt                == <<"H", "X", "-", "P", "r", "o", "m", "p", "t">>
HeaderRequest               == <<"H", "x", "-", "R", "e", "q", "u", "e", "s", "t">>
HeaderTarget                == <<"H", "X", "-", "T", "a", "r", "g", "e", "t">>
HeaderTriggerName           == <<"H", "x", "-", "T", "r", "i", "g", "g", "e", "r", "-", "N", "a", "m", "e">>

\* A header line of a request
Line(name, value) == [name |-> name, value |-> value]

\* http.Header.Add: the value is added to the list of the canonical key
HeaderAdd(header, key, value) ==
    LET k == CanonicalMIMEHeaderKey(key)
    IN  [x \in DOMAIN header \cup {k} |->
            IF x # k THEN header[x]
            ELSE IF k \in DOMAIN header THEN Append(header[k], value)
                 ELSE <<value>>]

\* The Header the server makes of the header lines, in their order
RECURSIVE ReadHeader(_)
ReadHeader(lines) ==
    IF lines = <<>> THEN EmptyMap
    ELSE HeaderAdd(ReadHeader(SubSeq(lines, 1, Len(lines) - 1)),
                   lines[Len(lines)].name, lines[Len(lines)].value)

\* The http.Request the server makes of the lines
Request(lines) == [lines |-> lines, Header |-> ReadHeader(lines)]

\* A getter that looks the header up under the key as the constant spells it
GetUncanonical(header, key) ==
    IF key \notin DOMAIN header THEN <<<<>>, FALSE>>
    ELSE <<HeaderGet(header, key), TRUE>>

\* The body the five getters share: the value of the header and whether the
\* header has the canonical key
Get(header, key) ==
    IF CanonicalMIMEHeaderKey(key) \notin DOMAIN header THEN <<<<>>, FALSE>>
    ELSE <<HeaderGet(header, key), TRUE>>

GetCurrentURL(header)  == Get(header, HeaderCurrentURL)
GetPrompt(header)      == Get(header, HeaderPrompt)
GetTarget(header)      == Get(header, HeaderTarget)
GetTriggerName(header) == Get(header, HeaderTriggerName)
GetTrigger(header)     == Get(header, HeaderTrigger)

\* A flag that compares the value without regard to case
IsTrueFold(header, key) ==
    LET v == HeaderGet(header, key)
    IN  [i \in 1..Len(v) |-> ToLower(v[i])] = <<"t", "r", "u", "e">>

\* The body the three flags share: the value of the header is "true"
IsTrue(header, key) == HeaderGet(header, key) = <<"t", "r", "u", "e">>

IsHTMX(header)                  == IsTrue(header, HeaderRequest)
IsBoosted(header)               == IsTrue(header, HeaderBoosted)
IsHistoryRestoreRequest(header) == IsTrue(header, HeaderHistoryRestoreRequest)

---------------------------------------------------------------------------
(* The handler.  It builds one Response, passing the strategy a caller has  *)
(* derived to Reswap, and writes it to the response writer.                 *)

StatusCodes == {0, StatusStopPolling}
Swappy      == <<"#", "s", "w", "a", "p", "p", "y">>
Messages    == <<"#", "m", "e", "s", "s", "a", "g", "e", "s">>
MyEvent     == <<"m", "y", "E", "v", "e", "n", "t">>

\* The paths and URLs the handler passes, and the location contexts
URLs == {<<"/", "h", "e", "l", "l", "o">>, <<"/", "p", "r", "o", "f", "i", "l", "e", "s">>}
TestContext == [NoContext EXCEPT !.Target = <<"#", "t", "e", "s", "t", "d", "i", "v">>, !.Source = <<"H", "E", "L", "L", "O">>]
Contexts == {NoContext, TestContext}

\* A LocationContext with every field set, and the contexts that have the
\* given fields of it
FullContext ==
    [Source |-> <<"H", "E", "L", "L", "O">>, Event |-> <<"c", "l", "i", "c", "k">>, Handler |-> <<"h", "a", "n", "d", "l", "e">>, Target |-> <<"#", "t", "e", "s", "t", "d", "i", "v">>,
     Swap |-> SwapOuterHTML,
     Values |-> MapSet(EmptyMap, <<"i", "d">>, <<"1">>),
     Headers |-> MapSet(EmptyMap, <<"X", "-", "K", "e", "y">>, <<"a", "&", "b">>),
     Select |-> <<"#", "s", "e", "l">>]
ContextWith(fields) ==
    [f \in DOMAIN NoContext |-> IF f \in fields THEN FullContext[f] ELSE NoContext[f]]

\* The contexts with at most MaxFields fields set, the context with every
\* field set, the context of the test, and one with modifiers and no base
\* strategy as its Swap
FieldContexts ==
    {ContextWith(fields) : fields \in {F \in SUBSET DOMAIN NoContext : Cardinality(F) <= MaxFields}}
        \cup {FullContext, TestContext, [NoContext EXCEPT !.Swap = <<"s", "h", "o", "w", ":", "n", "o", "n", "e">>]}

\* The event names, the detail string and the detail object of the README
Hello   == <<"h", "e", "l", "l", "o">>
World   == <<"w", "o", "r", "l", "d">>
Message == [k \in {<<"l", "e", "v", "e", "l">>, <<"m", "e", "s", "s", "a", "g", "e">>} |->
               IF k = <<"l", "e", "v", "e", "l">> THEN <<"i", "n", "f", "o">> ELSE <<"H", "e", "r", "e", " ", "i", "s", " ", "a", " ", "M", "e", "s", "s", "a", "g", "e">>]

\* The trigger lists a handler passes to the AddTrigger methods
TriggerLists ==
    {<<Trigger(MyEvent)>>,
     <<Trigger(Hello)>>,
     <<TriggerDetail(Hello, World)>>,
     <<TriggerObject(MyEvent, MapValue(Message))>>,
     <<Trigger(MyEvent), TriggerObject(Hello, StringValue(World))>>}

\* The HTML a handler renders
HelloWorld == <<"h", "e", "l", "l", "o", " ", "w", "o", "r", "l", "d", "!">>
Pages == {HelloWorld, <<"<", "p", ">", "a", "&", "b", "<", "/", "p", ">">>}

\* The keys the handler changes in a map Headers returned
ReturnedKeys == {HeaderPushURL, HeaderRedirect, HeaderTrigger}

\* A call of a Response method; from is the base and the chain of the
\* strategy passed, if one is passed
RCall(op, arg, from) == [op |-> op, arg |-> arg, from |-> from]

\* The handler may call another method of the Response
MayBuild ==
    /\ ~panicked
    /\ Len(rcalls) < rlimit

CallStatusCode ==
    \E code \in StatusCodes :
        /\ MayBuild
        /\ resp' = StatusCode(resp, code)
        /\ rcalls' = Append(rcalls, RCall("StatusCode", <<code>>, <<>>))
        /\ UNCHANGED <<headerMaps, w, orig, returned, sliceVars, handlerParams, swapVars, reqVars>>

CallReswap ==
    \E c \in DOMAIN val :
        /\ MayBuild
        /\ headerMaps' = [headerMaps EXCEPT ![resp.headers] = Reswap(@, val[c])]
        /\ rcalls' = Append(rcalls, RCall("Reswap", <<val[c]>>, <<base, Calls(c)>>))
        /\ UNCHANGED <<resp, w, orig, returned, sliceVars, handlerParams, swapVars, reqVars>>

CallRetarget ==
    \E cssSelector \in selectors :
        /\ MayBuild
        /\ headerMaps' = [headerMaps EXCEPT ![resp.headers] = Retarget(@, cssSelector)]
        /\ rcalls' = Append(rcalls, RCall("Retarget", <<cssSelector>>, <<>>))
        /\ UNCHANGED <<resp, w, orig, returned, sliceVars, handlerParams, swapVars, reqVars>>

CallAddTrigger ==
    \E trigger \in triggerArgs :
        /\ MayBuild
        /\ resp' = AddTrigger(resp, trigger, arrays).response
        /\ arrays' = AddTrigger(resp, trigger, arrays).arrays
        /\ rcalls' = Append(rcalls, RCall("AddTrigger", trigger, <<>>))
        /\ UNCHANGED <<headerMaps, w, orig, returned, derived, handlerParams, swapVars, reqVars>>

CallAddTriggerAfterSettle ==
    \E trigger \in triggerArgs :
        /\ MayBuild
        /\ resp' = AddTriggerAfterSettle(resp, trigger, arrays).response
        /\ arrays' = AddTriggerAfterSettle(resp, trigger, arrays).arrays
        /\ rcalls' = Append(rcalls, RCall("AddTriggerAfterSettle", trigger, <<>>))
        /\ UNCHANGED <<headerMaps, w, orig, returned, derived, handlerParams, swapVars, reqVars>>

CallAddTriggerAfterSwap ==
    \E trigger \in triggerArgs :
        /\ MayBuild
        /\ resp' = AddTriggerAfterSwap(resp, trigger, arrays).response
        /\ arrays' = AddTriggerAfterSwap(resp, trigger, arrays).arrays
        /\ rcalls' = Append(rcalls, RCall("AddTriggerAfterSwap", trigger, <<>>))
        /\ UNCHANGED <<headerMaps, w, orig, returned, derived, handlerParams, swapVars, reqVars>>

\* The handler calls a trigger method on the Response it has built and
\* keeps the Response returned next to it (y := x.AddTrigger(t)); call is
\* the place of the call in rcalls
Derives(call, result) ==
    /\ MayBuild
    /\ derived' = Append(derived, [response |-> result.response,
                                   call |-> Len(rcalls) + 1])
    /\ arrays' = result.arrays
    /\ rcalls' = Append(rcalls, call)
    /\ UNCHANGED <<resp, headerMaps, w, orig, returned, handlerParams, swapVars, reqVars>>

DeriveAddTrigger ==
    \E trigger \in triggerArgs :
        Derives(RCall("DeriveAddTrigger", trigger, <<>>),
                AddTrigger(resp, trigger, arrays))

DeriveAddTriggerAfterSettle ==
    \E trigger \in triggerArgs :
        Derives(RCall("DeriveAddTriggerAfterSettle", trigger, <<>>),
                AddTriggerAfterSettle(resp, trigger, arrays))

DeriveAddTriggerAfterSwap ==
    \E trigger \in triggerArgs :
        Derives(RCall("DeriveAddTriggerAfterSwap", trigger, <<>>),
                AddTriggerAfterSwap(resp, trigger, arrays))

\* The handler clones the Response it has built and goes on with the clone
CallClone ==
    /\ MayBuild
    /\ orig = <<>>
    /\ orig' = <<resp>>
    /\ resp' = Clone(resp, headerMaps).response
    /\ headerMaps' = Clone(resp, headerMaps).maps
    /\ rcalls' = Append(rcalls, RCall("Clone", <<>>, <<>>))
    /\ UNCHANGED <<w, returned, sliceVars, handlerParams, swapVars, reqVars>>

\* The handler takes a copy of the Response it has built (a package-level
\* variable used without Clone) and goes on with the copy
CopyResponse ==
    /\ MayBuild
    /\ orig = <<>>
    /\ orig' = <<resp>>
    /\ resp' = ValueCopy(resp, headerMaps).response
    /\ headerMaps' = ValueCopy(resp, headerMaps).maps
    /\ rcalls' = Append(rcalls, RCall("Copy", <<>>, <<>>))
    /\ UNCHANGED <<w, returned, sliceVars, handlerParams, swapVars, reqVars>>

\* The handler goes on with the other one of its two Responses
TurnToOther ==
    /\ MayBuild
    /\ orig # <<>>
    /\ orig' = <<resp>>
    /\ resp' = orig[1]
    /\ rcalls' = Append(rcalls, RCall("Other", <<>>, <<>>))
    /\ UNCHANGED <<headerMaps, w, returned, sliceVars, handlerParams, swapVars, reqVars>>

\* The handler calls Headers and keeps the map returned
CallHeaders ==
    /\ MayBuild
    /\ returned' = HeadersMap(resp, headerMaps).map
    /\ headerMaps' = HeadersMap(resp, headerMaps).maps
    /\ rcalls' = Append(rcalls, RCall("Headers", <<>>, <<>>))
    /\ UNCHANGED <<resp, w, orig, sliceVars, handlerParams, swapVars, reqVars>>

\* The handler changes the map Headers returned
ChangesReturned(call, m) ==
    /\ MayBuild
    /\ returned # 0
    /\ headerMaps' = [headerMaps EXCEPT ![returned] = m]
    /\ rcalls' = Append(rcalls, call)
    /\ UNCHANGED <<resp, w, orig, returned, sliceVars, handlerParams, swapVars, reqVars>>

\* m[k] = v for a key the map returned does not have
InsertReturned ==
    \E k \in ReturnedKeys, v \in URLs :
        /\ returned # 0
        /\ k \notin DOMAIN headerMaps[returned]
        /\ ChangesReturned(RCall("insert", <<k, v>>, <<>>),
                           MapSet(headerMaps[returned], k, v))

\* m[k] = v for a key the map returned has
OverwriteReturned ==
    \E k \in ReturnedKeys, v \in URLs :
        /\ returned # 0
        /\ k \in DOMAIN headerMaps[returned]
        /\ ChangesReturned(RCall("overwrite", <<k, v>>, <<>>),
                           MapSet(headerMaps[returned], k, v))

\* delete(m, k) for a key the map returned has
DeleteReturned ==
    \E k \in ReturnedKeys :
        /\ returned # 0
        /\ k \in DOMAIN headerMaps[returned]
        /\ ChangesReturned(RCall("delete", <<k>>, <<>>),
                           MapDelete(headerMaps[returned], k))

CallWrite ==
    /\ MayBuild
    /\ w' = Write(resp, w)
    /\ rcalls' = Append(rcalls, RCall("Write", <<WriteFails(resp)>>, <<>>))
    /\ UNCHANGED <<resp, headerMaps, orig, returned, sliceVars, handlerParams, swapVars, reqVars>>

\* A call that assigns to the header map of the Response and returns it
SetsHeader(call, headers) ==
    /\ MayBuild
    /\ headerMaps' = [headerMaps EXCEPT ![resp.headers] = headers]
    /\ rcalls' = Append(rcalls, call)
    /\ UNCHANGED <<resp, w, orig, returned, sliceVars, handlerParams, swapVars, reqVars>>

CallLocation ==
    \E path \in URLs :
        SetsHeader(RCall("Location", <<path>>, <<>>),
                   Location(headerMaps[resp.headers], path))

CallLocationWithContext ==
    \E path \in URLs, ctx \in contexts :
        /\ MayBuild
        /\ resp' = LocationWithContextErr(resp)
        /\ headerMaps' = [headerMaps EXCEPT
                             ![resp.headers] = LocationWithContext(@, path, ctx)]
        /\ rcalls' = Append(rcalls, RCall("LocationWithContext", <<path, ctx>>, <<>>))
        /\ UNCHANGED <<w, orig, returned, sliceVars, handlerParams, swapVars, reqVars>>

CallPushURL ==
    \E url \in URLs :
        SetsHeader(RCall("PushURL", <<url>>, <<>>),
                   PushURL(headerMaps[resp.headers], url))

CallPreventPushURL ==
    SetsHeader(RCall("PreventPushURL", <<>>, <<>>),
               PreventPushURL(headerMaps[resp.headers]))

CallRedirect ==
    \E path \in URLs :
        SetsHeader(RCall("Redirect", <<path>>, <<>>),
                   Redirect(headerMaps[resp.headers], path))

CallRefresh ==
    \E shouldRefresh \in BOOLEAN :
        SetsHeader(RCall("Refresh", <<shouldRefresh>>, <<>>),
                   Refresh(headerMaps[resp.headers], shouldRefresh))

CallReplaceURL ==
    \E url \in URLs :
        SetsHeader(RCall("ReplaceURL", <<url>>, <<>>),
                   ReplaceURL(headerMaps[resp.headers], url))

CallPreventReplaceURL ==
    SetsHeader(RCall("PreventReplaceURL", <<>>, <<>>),
               PreventReplaceURL(headerMaps[resp.headers]))

CallReselect ==
    \E cssSelector \in selectors :
        SetsHeader(RCall("Reselect", <<cssSelector>>, <<>>),
                   Reselect(headerMaps[resp.headers], cssSelector))

NextResponse ==
    \/ CallTransition
    \/ CallIgnoreTitle
    \/ CallFocusScroll
    \/ CallAfter
    \/ CallSettleAfter
    \/ CallScroll
    \/ CallScrollOn
    \/ CallScrollWindow
    \/ CallShow
    \/ CallShowOn
    \/ CallShowWindow
    \/ CallShowNone
    \/ CallStatusCode
    \/ CallReswap
    \/ CallRetarget
    \/ CallAddTrigger
    \/ CallWrite

---------------------------------------------------------------------------
(* The runs *)

\* A handler that has made a Response and called none of its methods
NewHandler ==
    /\ resp = NewResponse(1)
    /\ headerMaps = <<EmptyMap>>
    /\ w = NewWriter
    /\ rcalls = <<>>
    /\ orig = <<>>
    /\ returned = 0
    /\ arrays = <<>>
    /\ derived = <<>>
    /\ req = Request(<<>>)
    /\ got = <<>>

\* A handler that calls up to MaxRespCalls methods and adds the trigger of
\* one event
InitHandler ==
    /\ NewHandler
    /\ rlimit = MaxRespCalls
    /\ triggerArgs = {<<>>, <<Trigger(MyEvent)>>}
    /\ contexts = Contexts

\* One caller chaining modifiers on a base strategy
Init ==
    /\ base \in BaseStrategies
    /\ val = [c \in {1} |-> base]
    /\ chain = [c \in {1} |-> <<>>]
    /\ panicked = FALSE
    /\ limit = MaxOps
    /\ durations = Durations
    /\ selectors = Selectors
    /\ InitHandler

Spec == Init /\ [][Next]_vars

\* The durations passed in the run of SpecDuration: the whole seconds up to
\* MaxSeconds, of either sign, and the whole milliseconds below a second
DurationInputs ==
    {n * Second : n \in (0 - MaxSeconds)..MaxSeconds}
        \cup {n * Millisecond : n \in 1..999}

\* One caller making one call, After and SettleAfter with every duration
InitDuration ==
    /\ base \in BaseStrategies
    /\ val = [c \in {1} |-> base]
    /\ chain = [c \in {1} |-> <<>>]
    /\ panicked = FALSE
    /\ limit = 1
    /\ durations = DurationInputs
    /\ selectors = Selectors
    /\ InitHandler

SpecDuration == InitDuration /\ [][Next]_vars

\* One caller that passes selectors with a space: a descendant selector and
\* one that holds the text of a modifier
DescendantSelector == <<"#", "l", "i", "s", "t", " ", ".", "i", "t", "e", "m">>
ModifierLikeSelector == <<"a", " ", "s", "h", "o", "w", ":", "x">>

InitSelectors ==
    /\ base = SwapInnerHTML
    /\ val = [c \in {1} |-> base]
    /\ chain = [c \in {1} |-> <<>>]
    /\ panicked = FALSE
    /\ limit = MaxOps
    /\ durations = {5 * Second}
    /\ selectors = {DescendantSelector, ModifierLikeSelector}
    /\ InitHandler

SpecSelectors == InitSelectors /\ [][Next]_vars

\* Two callers deriving from the same base strategy, in any interleaving
InitCallers ==
    /\ base \in BaseStrategies
    /\ val = [c \in {1, 2} |-> base]
    /\ chain = [c \in {1, 2} |-> <<>>]
    /\ panicked = FALSE
    /\ limit = MaxSharedOps
    /\ durations = Durations
    /\ selectors = Selectors
    /\ InitHandler

SpecCallers == InitCallers /\ [][Next]_vars

\* A handler that derives a strategy by at most one call and builds and
\* writes a Response
InitResponse ==
    /\ base \in BaseStrategies
    /\ val = [c \in {1} |-> base]
    /\ chain = [c \in {1} |-> <<>>]
    /\ panicked = FALSE
    /\ limit = 1
    /\ durations = {5 * Second}
    /\ selectors = {Swappy}
    /\ InitHandler

SpecResponse == InitResponse /\ [][NextResponse]_vars

\* The header-setting methods of the Response
NextHeaders ==
    \/ CallLocation
    \/ CallLocationWithContext
    \/ CallPushURL
    \/ CallPreventPushURL
    \/ CallRedirect
    \/ CallRefresh
    \/ CallReplaceURL
    \/ CallPreventReplaceURL
    \/ CallReswap
    \/ CallRetarget
    \/ CallReselect

\* A handler that holds a base strategy and calls header-setting methods on
\* one Response
InitHeaders ==
    /\ base \in {SwapInnerHTML, SwapOuterHTML}
    /\ val = [c \in {1} |-> base]
    /\ chain = [c \in {1} |-> <<>>]
    /\ panicked = FALSE
    /\ limit = 0
    /\ durations = {}
    /\ selectors = {Swappy}
    /\ NewHandler
    /\ rlimit = MaxHeaderCalls
    /\ triggerArgs = {}
    /\ contexts = Contexts

SpecHeaders == InitHeaders /\ [][NextHeaders]_vars

\* The names of the request headers as the client sends them: the three
\* flags, and the five headers with a value
FlagNames == <<<<"H", "X", "-", "R", "e", "q", "u", "e", "s", "t">>,
               <<"H", "X", "-", "B", "o", "o", "s", "t", "e", "d">>,
               <<"H", "X", "-", "H", "i", "s", "t", "o", "r", "y", "-", "R", "e", "s", "t", "o", "r", "e", "-", "R", "e", "q", "u", "e", "s", "t">>>>
ValueNames == <<<<"H", "X", "-", "C", "u", "r", "r", "e", "n", "t", "-", "U", "R", "L">>,
                <<"H", "X", "-", "P", "r", "o", "m", "p", "t">>,
                <<"H", "X", "-", "T", "a", "r", "g", "e", "t">>,
                <<"H", "X", "-", "T", "r", "i", "g", "g", "e", "r", "-", "N", "a", "m", "e">>,
                <<"H", "X", "-", "T", "r", "i", "g", "g", "e", "r">>>>

\* A header name in lower case, as a client may send it
Lower(s) == [i \in 1..Len(s) |-> ToLower(s[i])]

\* The values a client sends for a flag
FlagValues == {<<"t", "r", "u", "e">>, <<"T", "r", "u", "e">>, <<"f", "a", "l", "s", "e">>, <<>>}

\* The lines a request has for the flag named n: none, one with any of the
\* values, or one under the name in lower case
FlagLines(n) ==
    {<<>>, <<Line(Lower(n), <<"t", "r", "u", "e">>)>>} \cup {<<Line(n, v)>> : v \in FlagValues}

\* The lines a request has for the header named n: none, one with the empty
\* value, one under the name in lower case, or MaxValues lines
ValueLines(n) ==
    {<<>>, <<Line(n, <<>>)>>, <<Line(Lower(n), <<"/", "h", "e", "l", "l", "o">>)>>,
     [i \in 1..MaxValues |-> Line(n, IF i % 2 = 1 THEN <<"/", "p", "r", "o", "f", "i", "l", "e", "s">> ELSE <<"/", "h", "e", "l", "l", "o">>)]}

\* The requests: those with any flags and none or all of the other headers,
\* and those with no flag and any of the other headers
Requests ==
    {a \o b \o c \o d :
        a \in FlagLines(FlagNames[1]), b \in FlagLines(FlagNames[2]),
        c \in FlagLines(FlagNames[3]),
        d \in {<<>>, [i \in 1..Len(ValueNames) |-> Line(ValueNames[i], <<"/", "h", "e", "l", "l", "o">>)]}}
    \cup
    {a \o b \o c \o d \o e :
        a \in ValueLines(ValueNames[1]), b \in ValueLines(ValueNames[2]),
        c \in ValueLines(ValueNames[3]), d \in ValueLines(ValueNames[4]),
        e \in ValueLines(ValueNames[5])}

\* The handler calls a function of request.go on the request
Gets(fn, result) ==
    /\ got' = <<[fn |-> fn, result |-> result]>>
    /\ UNCHANGED <<req, swapVars, respVars>>

CallIsHTMX == Gets("IsHTMX", IsHTMX(req.Header))
CallIsBoosted == Gets("IsBoosted", IsBoosted(req.Header))
CallIsHistoryRestoreRequest ==
    Gets("IsHistoryRestoreRequest", IsHistoryRestoreRequest(req.Header))
CallGetCurrentURL == Gets("GetCurrentURL", GetCurrentURL(req.Header))
CallGetPrompt == Gets("GetPrompt", GetPrompt(req.Header))
CallGetTarget == Gets("GetTarget", GetTarget(req.Header))
CallGetTriggerName == Gets("GetTriggerName", GetTriggerName(req.Header))
CallGetTrigger == Gets("GetTrigger", GetTrigger(req.Header))

\* The functions of request.go
NextRequest ==
    \/ CallIsHTMX
    \/ CallIsBoosted
    \/ CallIsHistoryRestoreRequest
    \/ CallGetCurrentURL
    \/ CallGetPrompt
    \/ CallGetTarget
    \/ CallGetTriggerName
    \/ CallGetTrigger

\* A handler that reads a request
InitRequest ==
    /\ base = SwapDefault
    /\ val = [c \in {1} |-> base]
    /\ chain = [c \in {1} |-> <<>>]
    /\ panicked = FALSE
    /\ limit = 0
    /\ durations = {}
    /\ selectors = {}
    /\ resp = NewResponse(1)
    /\ headerMaps = <<EmptyMap>>
    /\ w = NewWriter
    /\ rcalls = <<>>
    /\ orig = <<>>
    /\ returned = 0
    /\ arrays = <<>>
    /\ derived = <<>>
    /\ rlimit = 0
    /\ triggerArgs = {}
    /\ contexts = Contexts
    /\ req \in {Request(lines) : lines \in Requests}
    /\ got = <<>>

SpecRequest == InitRequest /\ [][NextRequest]_vars

CallRenderHTML ==
    \E html \in Pages :
        /\ MayBuild
        /\ w' = RenderHTML(resp, w, html)
        /\ rcalls' = Append(rcalls,
                            RCall("RenderHTML", <<html, RenderHTMLReturns(resp)>>, <<>>))
        /\ UNCHANGED <<resp, headerMaps, orig, returned, sliceVars, handlerParams, swapVars, reqVars>>

\* The methods of a handler that renders HTML
NextRender ==
    \/ CallStatusCode
    \/ CallLocation
    \/ CallAddTrigger
    \/ CallRenderHTML

\* A handler that builds a Response and renders HTML with it; one of the
\* triggers it may add has a detail object that cannot be encoded
InitRender ==
    /\ base = SwapDefault
    /\ val = [c \in {1} |-> base]
    /\ chain = [c \in {1} |-> <<>>]
    /\ panicked = FALSE
    /\ limit = 0
    /\ durations = {}
    /\ selectors = {}
    /\ NewHandler
    /\ rlimit = MaxRenderCalls
    /\ triggerArgs = {<<Trigger(MyEvent)>>, <<TriggerObject(MyEvent, ChanValue)>>}
    /\ contexts = Contexts

SpecRender == InitRender /\ [][NextRender]_vars

\* A handler that builds a Response with trigger methods and derives
\* Responses from it
NextDerived ==
    \/ CallAddTrigger
    \/ CallAddTriggerAfterSettle
    \/ CallAddTriggerAfterSwap
    \/ DeriveAddTrigger
    \/ DeriveAddTriggerAfterSettle
    \/ DeriveAddTriggerAfterSwap

InitDerived ==
    /\ base = SwapInnerHTML
    /\ val = [c \in {1} |-> base]
    /\ chain = [c \in {1} |-> <<>>]
    /\ panicked = FALSE
    /\ limit = 0
    /\ durations = {}
    /\ selectors = {}
    /\ NewHandler
    /\ rlimit = MaxDerivedCalls
    /\ triggerArgs = {<<Trigger(Hello)>>, <<Trigger(World)>>}
    /\ contexts = Contexts

SpecDerived == InitDerived /\ [][NextDerived]_vars

\* A handler that sets a location with a context, and writes
NextLocation ==
    \/ CallLocationWithContext
    \/ CallLocation
    \/ CallWrite

InitLocation ==
    /\ base = SwapInnerHTML
    /\ val = [c \in {1} |-> base]
    /\ chain = [c \in {1} |-> <<>>]
    /\ panicked = FALSE
    /\ limit = 0
    /\ durations = {}
    /\ selectors = {}
    /\ NewHandler
    /\ rlimit = MaxLocationCalls
    /\ triggerArgs = {}
    /\ contexts = FieldContexts

SpecLocation == InitLocation /\ [][NextLocation]_vars

\* The steps of a handler that has a package-level Response, and takes a
\* copy or a clone of it
NextGlobal ==
    \/ CallReswap
    \/ CallRetarget
    \/ CallReselect
    \/ CallPushURL
    \/ CallPreventPushURL
    \/ CopyResponse
    \/ CallClone
    \/ TurnToOther

InitGlobal ==
    /\ base = SwapDelete
    /\ val = [c \in {1} |-> base]
    /\ chain = [c \in {1} |-> <<>>]
    /\ panicked = FALSE
    /\ limit = 0
    /\ durations = {}
    /\ selectors = {Swappy, Messages}
    /\ NewHandler
    /\ rlimit = MaxGlobalCalls
    /\ triggerArgs = {}
    /\ contexts = Contexts

SpecGlobal == InitGlobal /\ [][NextGlobal]_vars

\* The builder methods of the Response
NextFrame ==
    \/ CallStatusCode
    \/ CallLocation
    \/ CallLocationWithContext
    \/ CallPushURL
    \/ CallPreventPushURL
    \/ CallRedirect
    \/ CallRefresh
    \/ CallReplaceURL
    \/ CallPreventReplaceURL
    \/ CallReswap
    \/ CallRetarget
    \/ CallReselect
    \/ CallAddTrigger
    \/ CallAddTriggerAfterSettle
    \/ CallAddTriggerAfterSwap

\* A handler that calls builder methods on one Response
InitFrame ==
    /\ base = SwapInnerHTML
    /\ val = [c \in {1} |-> base]
    /\ chain = [c \in {1} |-> <<>>]
    /\ panicked = FALSE
    /\ limit = 0
    /\ durations = {}
    /\ selectors = {Swappy}
    /\ NewHandler
    /\ rlimit = MaxFrameCalls
    /\ triggerArgs = {<<Trigger(MyEvent)>>, <<TriggerDetail(Hello, World)>>}
    /\ contexts = Contexts

SpecFrame == InitFrame /\ [][NextFrame]_vars

\* The methods of a handler whose Write may fail
NextErrors ==
    \/ CallStatusCode
    \/ CallLocationWithContext
    \/ CallAddTrigger
    \/ CallAddTriggerAfterSettle
    \/ CallAddTriggerAfterSwap
    \/ CallWrite

\* A handler that builds a Response and writes it; one of the triggers it
\* may add has a detail object that cannot be encoded
InitErrors ==
    /\ base = SwapDefault
    /\ val = [c \in {1} |-> base]
    /\ chain = [c \in {1} |-> <<>>]
    /\ panicked = FALSE
    /\ limit = 0
    /\ durations = {}
    /\ selectors = {}
    /\ NewHandler
    /\ rlimit = MaxErrorCalls
    /\ triggerArgs = {<<Trigger(MyEvent)>>, <<TriggerObject(MyEvent, ChanValue)>>}
    /\ contexts = Contexts

SpecErrors == InitErrors /\ [][NextErrors]_vars

\* The trigger methods of the Response, and Write
NextTriggers ==
    \/ CallAddTrigger
    \/ CallAddTriggerAfterSettle
    \/ CallAddTriggerAfterSwap
    \/ CallWrite

\* A handler that adds triggers to one Response
InitTriggers ==
    /\ base = SwapDefault
    /\ val = [c \in {1} |-> base]
    /\ chain = [c \in {1} |-> <<>>]
    /\ panicked = FALSE
    /\ limit = 0
    /\ durations = {}
    /\ selectors = {}
    /\ NewHandler
    /\ rlimit = MaxTriggerCalls
    /\ triggerArgs = TriggerLists
    /\ contexts = Contexts

SpecTriggers == InitTriggers /\ [][NextTriggers]_vars

\* A handler that calls the trigger methods with a trigger or with none
InitNoTriggers ==
    /\ base = SwapDefault
    /\ val = [c \in {1} |-> base]
    /\ chain = [c \in {1} |-> <<>>]
    /\ panicked = FALSE
    /\ limit = 0
    /\ durations = {}
    /\ selectors = {}
    /\ NewHandler
    /\ rlimit = MaxTriggerCalls
    /\ triggerArgs = {<<>>, <<Trigger(MyEvent)>>}
    /\ contexts = Contexts

SpecNoTriggers == InitNoTriggers /\ [][NextTriggers]_vars

\* The calls of a handler that changes the map Headers returned
NextCopy ==
    \/ CallPushURL
    \/ CallPreventPushURL
    \/ CallAddTrigger
    \/ CallHeaders
    \/ InsertReturned
    \/ OverwriteReturned
    \/ DeleteReturned
    \/ CallWrite

\* A handler that builds a Response, calls Headers and changes the map
InitCopy ==
    /\ base = SwapDefault
    /\ val = [c \in {1} |-> base]
    /\ chain = [c \in {1} |-> <<>>]
    /\ panicked = FALSE
    /\ limit = 0
    /\ durations = {}
    /\ selectors = {}
    /\ NewHandler
    /\ rlimit = MaxCopyCalls
    /\ triggerArgs = {<<Trigger(MyEvent)>>}
    /\ contexts = Contexts

SpecCopy == InitCopy /\ [][NextCopy]_vars

\* The methods a handler calls on a Response and on its clone
NextClone ==
    \/ CallStatusCode
    \/ CallReswap
    \/ CallPreventPushURL
    \/ CallLocationWithContext
    \/ CallAddTrigger
    \/ CallAddTriggerAfterSettle
    \/ CallAddTriggerAfterSwap
    \/ CallClone
    \/ CallWrite

\* A handler that builds a Response, clones it and goes on with the clone
InitClone ==
    /\ base = SwapDelete
    /\ val = [c \in {1} |-> base]
    /\ chain = [c \in {1} |-> <<>>]
    /\ panicked = FALSE
    /\ limit = 0
    /\ durations = {}
    /\ selectors = {}
    /\ NewHandler
    /\ rlimit = MaxCloneCalls
    /\ triggerArgs = {<<Trigger(MyEvent)>>}
    /\ contexts = Contexts

SpecClone == InitClone /\ [][NextClone]_vars

---------------------------------------------------------------------------
(* Properties of the serialization *)

\* The space-separated tokens of a serialization
Tokens(s) == Split(s, <<" ">>)

\* The places in the token sequence toks of the tokens that start with "key:"
KeyPlaces(toks, key) ==
    {i \in 1..Len(toks) : HasPrefix(toks[i], key \o <<":">>)}

\* The modifier key each method passes as prefix
OpKey(op) ==
    CASE op = "Transition"  -> KeyTransition
      [] op = "IgnoreTitle" -> KeyIgnoreTitle
      [] op = "FocusScroll" -> KeyFocusScroll
      [] op = "After"       -> KeySwap
      [] op = "SettleAfter" -> KeySettle
      [] op \in {"Scroll", "ScrollOn", "ScrollWindow"} -> KeyScroll
      [] op \in {"Show", "ShowOn", "ShowWindow", "ShowNone"} -> KeyShow

HasSelector(call) == call.op \in {"ScrollOn", "ShowOn"}

NoSpace(s) == \A i \in 1..Len(s) : s[i] # " "

\* No call of the chain passes a selector that contains a space
SpaceFree(calls) ==
    \A i \in 1..Len(calls) : HasSelector(calls[i]) => NoSpace(calls[i].arg[1])

\* C1 as claimed: whatever chain of modifier methods was applied to a base
\* constant, with whatever arguments, the serialization holds for each modifier
\* key K at most one space-separated token that starts with "K:".
C1_AtMostOneTokenPerKey ==
    \A c \in DOMAIN val :
        LET toks == Tokens(val[c])
        IN  \A key \in ModifierKeys : Cardinality(KeyPlaces(toks, key)) <= 1

\* C1 amended: when no selector passed along the chain contains a space, the
\* serialization holds for each modifier key K at most one space-separated
\* token that starts with "K:".
C1_AtMostOneTokenPerKey_SpaceFree ==
    \A c \in DOMAIN val :
        SpaceFree(chain[c]) =>
            LET toks == Tokens(val[c])
            IN  \A key \in ModifierKeys : Cardinality(KeyPlaces(toks, key)) <= 1

\* C1 witness: the scroll key was set three times in a row, through its three
\* methods, and one scroll token is left
C1_Witness ==
    \E c \in DOMAIN val :
        /\ ~panicked
        /\ SpaceFree(chain[c])
        /\ Len(chain[c]) = 3
        /\ chain[c][1].op = "Scroll"
        /\ chain[c][2].op = "ScrollOn"
        /\ chain[c][3].op = "ScrollWindow"
        /\ Cardinality(KeyPlaces(Tokens(val[c]), KeyScroll)) = 1

\* The method a call names, applied to the receiver s
ApplyCall(call, s) ==
    CASE call.op = "Transition"   -> Transition(s, call.arg[1])
      [] call.op = "IgnoreTitle"  -> IgnoreTitle(s, call.arg[1])
      [] call.op = "FocusScroll"  -> FocusScroll(s, call.arg[1])
      [] call.op = "After"        -> After(s, call.arg[1])
      [] call.op = "SettleAfter"  -> SettleAfter(s, call.arg[1])
      [] call.op = "Scroll"       -> Scroll(s, call.arg[1])
      [] call.op = "ScrollOn"     -> ScrollOn(s, call.arg[1], call.arg[2])
      [] call.op = "ScrollWindow" -> ScrollWindow(s, call.arg[1])
      [] call.op = "Show"         -> Show(s, call.arg[1])
      [] call.op = "ShowOn"       -> ShowOn(s, call.arg[1], call.arg[2])
      [] call.op = "ShowWindow"   -> ShowWindow(s, call.arg[1])
      [] call.op = "ShowNone"     -> ShowNone(s)

Div == <<"#", "d", "i", "v">>

\* C2: last write wins per key.  When the last two calls M1(a), M2(b) of a
\* chain set the same key and their selectors hold no space, the result is the
\* one of calling M2(b) alone on the receiver S of M1; and
\* SwapBeforeEnd.Scroll(Top).ScrollOn("#div", Bottom) is
\* "beforeend scroll:#div:bottom".
C2_LastWriteWins ==
    \A c \in DOMAIN val :
        LET n == Len(chain[c])
        IN  /\ ( /\ ~panicked
                 /\ n >= 2
                 /\ OpKey(chain[c][n - 1].op) = OpKey(chain[c][n].op)
                 /\ SpaceFree(SubSeq(chain[c], n - 1, n)) )
                => val[c] = ApplyCall(chain[c][n], chain[c][n - 1].recv)
            /\ ( /\ base = SwapBeforeEnd
                 /\ Calls(c) = << Call("Scroll", <<Top>>),
                                  Call("ScrollOn", <<Div, Bottom>>) >> )
                => val[c] = SwapBeforeEnd \o <<" ">> \o KeyScroll
                              \o <<":", "#", "d", "i", "v", ":">> \o Bottom.value

\* C2 witness: on a value that already carries a modifier, Scroll(Top) was
\* replaced by ScrollOn("#div", Bottom)
C2_Witness ==
    \E c \in DOMAIN val :
        /\ base = SwapBeforeEnd
        /\ Calls(c) = << Call("Transition", <<TRUE>>),
                         Call("Scroll", <<Top>>),
                         Call("ScrollOn", <<Div, Bottom>>) >>
        /\ val[c] = ScrollOn(Transition(SwapBeforeEnd, TRUE), Div, Bottom)

\* The token of the operation table of the specification for a call
BoolText(b) == IF b THEN <<"t", "r", "u", "e">> ELSE <<"f", "a", "l", "s", "e">>

DirText(dir) ==
    IF dir = Top THEN <<"t", "o", "p">> ELSE <<"b", "o", "t", "t", "o", "m">>

Window == <<"w", "i", "n", "d", "o", "w">>

TableToken(call) ==
    CASE call.op = "Transition"   ->
            <<"t", "r", "a", "n", "s", "i", "t", "i", "o", "n", ":">> \o BoolText(call.arg[1])
      [] call.op = "IgnoreTitle"  ->
            <<"i", "g", "n", "o", "r", "e", "T", "i", "t", "l", "e", ":">> \o BoolText(call.arg[1])
      [] call.op = "FocusScroll"  ->
            <<"f", "o", "c", "u", "s", "S", "c", "r", "o", "l", "l", ":">> \o BoolText(call.arg[1])
      [] call.op = "After"        ->
            <<"s", "w", "a", "p", ":">> \o DurationString(call.arg[1])
      [] call.op = "SettleAfter"  ->
            <<"s", "e", "t", "t", "l", "e", ":">> \o DurationString(call.arg[1])
      [] call.op = "Scroll"       ->
            <<"s", "c", "r", "o", "l", "l", ":">> \o DirText(call.arg[1])
      [] call.op = "ScrollOn"     ->
            <<"s", "c", "r", "o", "l", "l", ":">> \o call.arg[1] \o <<":">> \o DirText(call.arg[2])
      [] call.op = "ScrollWindow" ->
            <<"s", "c", "r", "o", "l", "l", ":">> \o Window \o <<":">> \o DirText(call.arg[1])
      [] call.op = "Show"         ->
            <<"s", "h", "o", "w", ":">> \o DirText(call.arg[1])
      [] call.op = "ShowOn"       ->
            <<"s", "h", "o", "w", ":">> \o call.arg[1] \o <<":">> \o DirText(call.arg[2])
      [] call.op = "ShowWindow"   ->
            <<"s", "h", "o", "w", ":">> \o Window \o <<":">> \o DirText(call.arg[1])
      [] call.op = "ShowNone"     ->
            <<"s", "h", "o", "w", ":", "n", "o", "n", "e">>

\* C3 as claimed: for each of the nine base strategies, SwapDefault included,
\* one modifier call gives the base, a single space and the token of the table.
C3_BaseSpaceToken ==
    \A c \in DOMAIN val :
        (~panicked /\ Len(chain[c]) = 1)
            => val[c] = base \o <<" ">> \o TableToken(chain[c][1])

\* C3 amended: for each of the eight non-empty base strategies one modifier
\* call gives the base, a single space and the token of the table; for the
\* empty base SwapDefault it gives the token alone, without a leading space.
C3_BaseSpaceToken_NonEmptyBase ==
    \A c \in DOMAIN val :
        (~panicked /\ Len(chain[c]) = 1)
            => val[c] = IF base = SwapDefault
                        THEN TableToken(chain[c][1])
                        ELSE base \o <<" ">> \o TableToken(chain[c][1])

\* C3 witness: SwapOuterHTML.ScrollWindow(Bottom) is "outerHTML scroll:window:bottom"
C3_Witness ==
    \E c \in DOMAIN val :
        /\ base = SwapOuterHTML
        /\ Calls(c) = << Call("ScrollWindow", <<Bottom>>) >>
        /\ val[c] = SwapOuterHTML \o <<" ">> \o KeyScroll \o <<":">> \o Window
                        \o <<":">> \o DirText(Bottom)

\* The calls of a chain that set their key last: no later call sets that key
LastSetters(calls) ==
    SelectSeq([i \in 1..Len(calls) |-> i],
              LAMBDA i : \A j \in (i + 1)..Len(calls) :
                            OpKey(calls[j].op) # OpKey(calls[i].op))

\* The base, then the token of each key in the order of the last call that set it
RECURSIVE TokensInLastSetOrder(_, _)
TokensInLastSetOrder(calls, setters) ==
    IF setters = <<>> THEN <<>>
    ELSE <<" ">> \o TableToken(calls[Head(setters)])
            \o TokensInLastSetOrder(calls, Tail(setters))

LastSetOrder(b, calls) == b \o TokensInLastSetOrder(calls, LastSetters(calls))

ManyModifiersResult ==
    SwapInnerHTML
        \o <<" ">> \o KeyTransition \o <<":">> \o BoolText(TRUE)
        \o <<" ">> \o KeyIgnoreTitle \o <<":">> \o BoolText(TRUE)
        \o <<" ">> \o KeyFocusScroll \o <<":">> \o BoolText(TRUE)
        \o <<" ">> \o KeySwap \o <<":", "5", "s">>
        \o <<" ">> \o KeySettle \o <<":", "5", "s">>
        \o <<" ">> \o KeyScroll \o <<":">> \o Window \o <<":", "t", "o", "p">>
        \o <<" ">> \o KeyShow \o <<":", "n", "o", "n", "e">>

\* C4: after any chain of modifier calls on a non-empty base the serialization
\* is the base name followed by the modifier tokens, ordered by the most recent
\* call that set each key; and the chain of swap_test.go gives
\* "innerHTML transition:true ignoreTitle:true focusScroll:true swap:5s
\* settle:5s scroll:window:top show:none".
C4_BaseFirstThenLastSetOrder ==
    \A c \in DOMAIN val :
        /\ (~panicked /\ base # SwapDefault)
              => val[c] = LastSetOrder(base, Calls(c))
        /\ (base = SwapInnerHTML /\ Calls(c) = ManyModifiers)
              => val[c] = ManyModifiersResult

\* The last three calls of caller c set the keys K1, K2, K1, with K1 # K2
ReappliesFirstKey(c) ==
    LET n == Len(chain[c])
    IN  /\ ~panicked
        /\ n >= 3
        /\ OpKey(chain[c][n].op) = OpKey(chain[c][n - 2].op)
        /\ OpKey(chain[c][n].op) # OpKey(chain[c][n - 1].op)

\* C5 as claimed: after K1, K2, K1 the K2 token has the place in the token
\* sequence and the value it had just before K1 was applied again.
C5_OtherKeyKeepsPlaceAndValue ==
    \A c \in DOMAIN val :
        ReappliesFirstKey(c) =>
            LET n      == Len(chain[c])
                K2     == OpKey(chain[c][n - 1].op)
                before == Tokens(chain[c][n].recv)
                after  == Tokens(val[c])
            IN  /\ KeyPlaces(after, K2) = KeyPlaces(before, K2)
                /\ \A i \in KeyPlaces(before, K2) : after[i] = before[i]

\* C5 amended: after K1, K2, K1 no token that starts with "K2:" was removed or
\* altered and these tokens have kept their order, but not their place: when
\* no selector of the chain holds a space, the one K2 token has moved one place
\* to the front, the K1 token before it being removed and the new one put last.
C5_OtherKeyKeepsValueMovesForward ==
    \A c \in DOMAIN val :
        ReappliesFirstKey(c) =>
            LET n      == Len(chain[c])
                K1     == OpKey(chain[c][n].op)
                K2     == OpKey(chain[c][n - 1].op)
                before == Tokens(chain[c][n].recv)
                after  == Tokens(val[c])
                isK2(word) == HasPrefix(word, K2 \o <<":">>)
                b2     == SelectSeq(before, isK2)
                a2     == SelectSeq(after, isK2)
            IN  /\ Len(a2) >= Len(b2)
                /\ SubSeq(a2, 1, Len(b2)) = b2
                /\ SpaceFree(chain[c]) =>
                      /\ Cardinality(KeyPlaces(before, K2)) = 1
                      /\ \A i \in KeyPlaces(before, K2) :
                            /\ KeyPlaces(after, K2) = {i - 1}
                            /\ after[i - 1] = before[i]
                            /\ KeyPlaces(after, K1) = {Len(after)}

\* C5 witness: Transition(true), Show(Top), Transition(false) on SwapAfterBegin:
\* "show:top" went from the third place to the second
C5_Witness ==
    \E c \in DOMAIN val :
        /\ base = SwapAfterBegin
        /\ Calls(c) = << Call("Transition", <<TRUE>>), Call("Show", <<Top>>),
                         Call("Transition", <<FALSE>>) >>
        /\ Tokens(chain[c][3].recv)[3] = KeyShow \o <<":", "t", "o", "p">>
        /\ Tokens(val[c])[2] = KeyShow \o <<":", "t", "o", "p">>

\* C6: on the empty base SwapDefault, after one or more modifier calls whose
\* selectors hold no space, the serialization is the modifier tokens joined by
\* single spaces: it neither starts nor ends with a space, holds no two spaces
\* in a row, and each token starts with a modifier key; SwapDefault.ShowNone()
\* is "show:none".
C6_DefaultBaseTokensOnly ==
    \A c \in DOMAIN val :
        /\ ( /\ ~panicked
             /\ base = SwapDefault
             /\ Len(chain[c]) >= 1
             /\ SpaceFree(chain[c]) )
            => /\ val[c] # <<>>
               /\ val[c][1] # " "
               /\ val[c][Len(val[c])] # " "
               /\ \A i \in 1..(Len(val[c]) - 1) : ~(val[c][i] = " " /\ val[c][i + 1] = " ")
               /\ LET toks == Tokens(val[c])
                  IN  \A i \in 1..Len(toks) :
                          \E key \in ModifierKeys : HasPrefix(toks[i], key \o <<":">>)
        /\ (base = SwapDefault /\ Calls(c) = << Call("ShowNone", <<>>) >>)
            => val[c] = <<"s", "h", "o", "w", ":", "n", "o", "n", "e">>

\* C6 witness: three modifiers on SwapDefault, the first of them set again
C6_Witness ==
    \E c \in DOMAIN val :
        /\ base = SwapDefault
        /\ Calls(c) = << Call("ShowNone", <<>>), Call("Transition", <<TRUE>>),
                         Call("ShowOn", <<Div, Bottom>>) >>
        /\ val[c] = KeyTransition \o <<":">> \o BoolText(TRUE) \o <<" ">>
                        \o KeyShow \o <<":">> \o Div \o <<":">> \o DirText(Bottom)

\* The decimal numeral of the integer n
Decimal(n) == IF n < 0 THEN <<"-">> \o fmtInt(0 - n) ELSE fmtInt(n)

\* C7: After(d) and SettleAfter(d) emit the token "swap:Ns" / "settle:Ns" for
\* every duration d that is a whole number N of seconds, and "swap:Nms" /
\* "settle:Nms" for every d that is a whole number N of milliseconds below a
\* second.
C7_WholeSecondsAndMilliseconds ==
    \A c \in DOMAIN val :
        (Len(chain[c]) = 1 /\ chain[c][1].op \in {"After", "SettleAfter"}) =>
            LET d     == chain[c][1].arg[1]
                key   == OpKey(chain[c][1].op)
                toks  == Tokens(val[c])
                token == toks[Len(toks)]
            IN  /\ d % Second = 0 =>
                      token = key \o <<":">> \o Decimal(d \div Second) \o <<"s">>
                /\ (0 < d /\ d < Second) =>
                      token = key \o <<":">> \o Decimal(d) \o <<"m", "s">>

\* The call passes the nil Direction, so it panics and returns nothing
PassesNil(call) ==
    /\ OpKey(call.op) \in {KeyScroll, KeyShow}
    /\ call.op # "ShowNone"
    /\ dirStringPanics(IF HasSelector(call) THEN call.arg[2] ELSE call.arg[1])

\* C8: every modifier method is pure.  With two callers deriving from the
\* same base in any interleaving, each caller obtains the result of its own
\* chain: the receiver of its first call is the base, the receiver of each
\* later call is the result of its call before applied to that call's
\* receiver, and the value it holds is the result of its last call.  No call
\* of the other caller has changed the base or a value the caller holds.
C8_CallersGetOwnChain ==
    \A c \in DOMAIN val :
        LET n == Len(chain[c])
        IN  /\ \A i \in 1..n :
                  chain[c][i].recv =
                      IF i = 1 THEN base
                      ELSE ApplyCall(chain[c][i - 1], chain[c][i - 1].recv)
            /\ val[c] =
                  IF n = 0 THEN base
                  ELSE IF PassesNil(chain[c][n]) THEN chain[c][n].recv
                  ELSE ApplyCall(chain[c][n], chain[c][n].recv)

\* C8 witness: both callers have derived from SwapInnerHTML, the second after
\* the first, and hold different values
C8_Witness ==
    /\ DOMAIN val = {1, 2}
    /\ base = SwapInnerHTML
    /\ Calls(1) = << Call("Transition", <<TRUE>>) >>
    /\ Calls(2) = << Call("ShowNone", <<>>) >>
    /\ val[1] = SwapInnerHTML \o <<" ">> \o KeyTransition \o <<":">> \o BoolText(TRUE)
    /\ val[2] = SwapInnerHTML \o <<" ">> \o KeyShow \o <<":", "n", "o", "n", "e">>

\* C9: no modifier call panics, whatever value of its parameter types it is given.
C9_NoCallPanics == ~panicked

\* The place in rcalls of the last call of the method op before place n,
\* 0 if there is none
LastCallOf(op, n) ==
    LET S == {i \in 1..(n - 1) : rcalls[i].op = op}
    IN  IF S = {} THEN 0 ELSE CHOOSE i \in S : \A j \in S : j <= i

SwappyExample ==
    <<"i", "n", "n", "e", "r", "H", "T", "M", "L", " ", "s", "h", "o", "w", ":",
      "#", "s", "w", "a", "p", "p", "y", ":", "t", "o", "p">>

\* The strategy SwapInnerHTML.ShowOn("#swappy", Top) was passed to call
IsSwappyExample(call) ==
    call.from = <<SwapInnerHTML, << Call("ShowOn", <<Swappy, Top>>) >> >>

\* C10: Reswap(s) stores the serialization of s as it is as the value of the
\* HX-Reswap header, and Write puts that string on the response writer: the
\* header map of the Response holds for HX-Reswap the strategy passed to the
\* last Reswap, and after a Write the writer holds for HX-Reswap that of the
\* last Reswap before the Write, and no HX-Reswap if there was none;
\* Reswap(SwapInnerHTML.ShowOn("#swappy", Top)) gives "innerHTML show:#swappy:top".
C10_ReswapStoredAndWritten ==
    LET j  == LastCallOf("Reswap", Len(rcalls) + 1)
        wr == LastCallOf("Write", Len(rcalls) + 1)
        jw == LastCallOf("Reswap", wr)
        k  == CanonicalMIMEHeaderKey(HeaderReswap)
    IN  /\ j > 0 =>
              /\ HeaderReswap \in DOMAIN Headers(resp)
              /\ Headers(resp)[HeaderReswap] = rcalls[j].arg[1]
              /\ IsSwappyExample(rcalls[j]) =>
                    Headers(resp)[HeaderReswap] = SwappyExample
        /\ j = 0 => HeaderReswap \notin DOMAIN Headers(resp)
        /\ (wr > 0 /\ jw > 0) =>
              /\ k \in DOMAIN w.header
              /\ w.header[k] = << rcalls[jw].arg[1] >>
              /\ HeaderGet(w.header, HeaderReswap) = rcalls[jw].arg[1]
              /\ IsSwappyExample(rcalls[jw]) =>
                    HeaderGet(w.header, HeaderReswap) = SwappyExample
        /\ (wr = 0 \/ jw = 0) => k \notin DOMAIN w.header

\* C10 witness: StatusCode(StatusStopPolling), then
\* Reswap(SwapInnerHTML.ShowOn("#swappy", Top)), then Write
C10_Witness ==
    /\ Len(rcalls) = 3
    /\ rcalls[1].op = "StatusCode"
    /\ rcalls[2].op = "Reswap"
    /\ IsSwappyExample(rcalls[2])
    /\ rcalls[3].op = "Write"
    /\ w.statusCode = StatusStopPolling
    /\ HeaderGet(w.header, HeaderReswap) = SwappyExample

---------------------------------------------------------------------------
(* Properties of the Response builder *)

\* The header a header-setting method writes, by the name of the method
HeaderWritten(op) ==
    CASE op \in {"Location", "LocationWithContext"} -> <<"H", "X", "-", "L", "o", "c", "a", "t", "i", "o", "n">>
      [] op \in {"PushURL", "PreventPushURL"} -> <<"H", "X", "-", "P", "u", "s", "h", "-", "U", "r", "l">>
      [] op = "Redirect" -> <<"H", "X", "-", "R", "e", "d", "i", "r", "e", "c", "t">>
      [] op = "Refresh" -> <<"H", "X", "-", "R", "e", "f", "r", "e", "s", "h">>
      [] op \in {"ReplaceURL", "PreventReplaceURL"} -> <<"H", "X", "-", "R", "e", "p", "l", "a", "c", "e", "-", "U", "r", "l">>
      [] op = "Reswap" -> <<"H", "X", "-", "R", "e", "s", "w", "a", "p">>
      [] op = "Retarget" -> <<"H", "X", "-", "R", "e", "t", "a", "r", "g", "e", "t">>
      [] op = "Reselect" -> <<"H", "X", "-", "R", "e", "s", "e", "l", "e", "c", "t">>
      [] OTHER -> <<>>

\* The value a header-setting call gives to its header
ValueGiven(call) ==
    CASE call.op \in {"PreventPushURL", "PreventReplaceURL"} -> <<"f", "a", "l", "s", "e">>
      [] call.op = "Refresh" -> IF call.arg[1] THEN <<"t", "r", "u", "e">> ELSE <<"f", "a", "l", "s", "e">>
      [] call.op = "LocationWithContext" ->
            locationContextJSON(call.arg[1], call.arg[2])
      [] call.op = "Reswap" -> swapString(call.arg[1])
      [] OTHER -> call.arg[1]

\* The header names of the response headers
ResponseHeaderNames ==
    {HeaderWritten(op) : op \in {"Location", "PushURL", "Redirect", "Refresh",
                                  "ReplaceURL", "Reswap", "Retarget", "Reselect"}}

\* The places in the calls made where header h is written
WritersOf(calls, h) == {i \in 1..Len(calls) : HeaderWritten(calls[i].op) = h}

\* m maps every header written by the calls to the value given by the last
\* call that writes it, and has no other response header
LastWriteWins(m, calls) ==
    \A h \in ResponseHeaderNames :
        IF WritersOf(calls, h) = {} THEN h \notin DOMAIN m
        ELSE /\ h \in DOMAIN m
             /\ m[h] = ValueGiven(calls[Last(WritersOf(calls, h))])

\* C11: after any sequence of header-setting calls on one Response,
\* Headers() maps each header name to the value given by the last call that
\* writes that header: Location and LocationWithContext write HX-Location,
\* PushURL and PreventPushURL write HX-Push-Url (PreventPushURL "false"),
\* ReplaceURL and PreventReplaceURL write HX-Replace-Url (PreventReplaceURL
\* "false"), and Refresh(b) writes "true" or "false" to HX-Refresh.
C11_LastWriteWins == LastWriteWins(Headers(resp), rcalls)

\* A URL was pushed, the push was prevented, and Headers() has "false"
C11_Witness ==
    /\ \E i, j \in 1..Len(rcalls) :
            /\ i < j
            /\ rcalls[i].op = "PushURL"
            /\ rcalls[j].op = "PreventPushURL"
            /\ \A k \in (j + 1)..Len(rcalls) : rcalls[k].op # "PushURL"
    /\ Headers(resp)[HeaderPushURL] = falseString

\* The step is a call of op by the handler
IsCall(op) ==
    /\ Len(rcalls') = Len(rcalls) + 1
    /\ rcalls'[Len(rcalls')].op = op

\* The calls the step makes on the response writer
NewEvents == SubSeq(w'.events, Len(w.events) + 1, Len(w'.events))

\* The places of the calls of op in a sequence of writer calls
EventsOf(events, op) == {i \in 1..Len(events) : events[i].op = op}

\* The status code configured by the calls: the code of the last call of
\* StatusCode, 0 if there is none
ConfiguredCode(calls) ==
    LET S == {i \in 1..Len(calls) : calls[i].op = "StatusCode"}
    IN  IF S = {} THEN 0 ELSE calls[Last(S)].arg[1]

\* C12: a Write that succeeds sets every header of Headers() on the response
\* writer and only afterwards calls WriteHeader with the configured status
\* code; WriteHeader is called exactly when the status code configured by
\* StatusCode is not zero (otherwise the status of the writer is left as it
\* is), and it is never called before a header is set.
C12_HeadersThenStatus ==
    [][(IsCall("Write") /\ ~WriteFails(resp)) =>
        LET sets   == EventsOf(NewEvents, "Set")
            status == EventsOf(NewEvents, "WriteHeader")
            code   == ConfiguredCode(rcalls)
        IN  /\ {NewEvents[i].arg : i \in sets} = DOMAIN Headers(resp)
            /\ Cardinality(sets) = Cardinality(DOMAIN Headers(resp))
            /\ \A k \in DOMAIN Headers(resp) :
                    w'.header[CanonicalMIMEHeaderKey(k)] = <<Headers(resp)[k]>>
            /\ \A i \in status : \A j \in sets : j < i
            /\ sets \cup status = 1..Len(NewEvents)
            /\ IF code # 0
               THEN /\ Cardinality(status) = 1
                    /\ \A i \in status : NewEvents[i].arg = code
                    /\ w'.statusCode = code
               ELSE /\ status = {}
                    /\ w'.statusCode = w.statusCode]_vars

\* A Response with the status code 286 and a header was written: the writer
\* got the header first and the status code last
C12_Witness ==
    /\ Len(rcalls) > 0
    /\ rcalls[Len(rcalls)].op = "Write"
    /\ ConfiguredCode(rcalls) = StatusStopPolling
    /\ Len(w.events) >= 2
    /\ w.events[Len(w.events)] = Event("WriteHeader", StatusStopPolling)
    /\ w.events[1].op = "Set"
    /\ w.statusCode = StatusStopPolling

\* What Write of r gives a writer nothing was written to: the headers and
\* the status code
Written(r) ==
    [header |-> Write(r, NewWriter).header,
     statusCode |-> Write(r, NewWriter).statusCode]

\* The result of Headers() of the Response that was cloned, and what its
\* Write writes
HeadersOfOrig == [fails |-> HeadersFails(orig[1]), headers |-> Headers(orig[1])]
WrittenOfOrig == Written(orig[1])

\* C13: for any Response r and c := r.Clone(), any sequence of builder calls
\* applied to c (header setters, AddTrigger*, StatusCode,
\* LocationWithContext) leaves the result of r.Headers() and the status code
\* written by r.Write unchanged.
C13_CloneIsolation ==
    [][(orig # <<>>) =>
        /\ orig' = orig
        /\ HeadersOfOrig' = HeadersOfOrig
        /\ WrittenOfOrig' = WrittenOfOrig]_vars

\* A Response with a header was cloned, the clone was given another value
\* for that header, a trigger and a status code, and the Response that was
\* cloned has what it had
C13_Witness ==
    /\ orig # <<>>
    /\ \E i, j, k, l \in 1..Len(rcalls) :
            /\ i < j /\ j < k /\ j < l
            /\ rcalls[i].op = "LocationWithContext"
            /\ rcalls[j].op = "Clone"
            /\ rcalls[k].op \in {"LocationWithContext", "PreventPushURL"}
            /\ rcalls[l].op \in {"AddTrigger", "StatusCode"}
    /\ Headers(resp) # Headers(orig[1])
    /\ HeaderLocation \in DOMAIN Headers(orig[1])

\* C14: for any Response r built by any sequence of builder calls (including
\* StatusCode, AddTrigger, AddTriggerAfterSettle, AddTriggerAfterSwap),
\* r.Clone() writes the same set of headers and the same status code as r.
C14_CloneWritesTheSame ==
    (rcalls # <<>> /\ rcalls[Len(rcalls)].op = "Clone") =>
        Written(resp) = Written(orig[1])

\* The result of Headers() of the Response the handler holds, and what its
\* Write writes
HeadersOfResp == [fails |-> HeadersFails(resp), headers |-> Headers(resp)]
WrittenOfResp == Written(resp)

\* C15: Headers() returns a copied map: any insertion, deletion or overwrite
\* performed on the returned map does not change what a later Headers() or
\* Write of the same Response produces.
C15_ReturnedMapIsACopy ==
    [][(IsCall("insert") \/ IsCall("overwrite") \/ IsCall("delete")) =>
        /\ HeadersOfResp' = HeadersOfResp
        /\ WrittenOfResp' = WrittenOfResp]_vars

\* The handler overwrote or deleted a header in the map returned, and the
\* Response has the header as it was set
C15_Witness ==
    /\ returned # 0
    /\ rcalls[Len(rcalls)].op \in {"overwrite", "delete"}
    /\ HeaderPushURL \in DOMAIN Headers(resp)
    /\ \/ HeaderPushURL \notin DOMAIN headerMaps[returned]
       \/ headerMaps[returned][HeaderPushURL] # Headers(resp)[HeaderPushURL]

\* The trigger methods, each with the header it is documented to set
TriggerMethods ==
    {<<"AddTrigger", <<"H", "X", "-", "T", "r", "i", "g", "g", "e", "r">>>>,
     <<"AddTriggerAfterSettle", <<"H", "X", "-", "T", "r", "i", "g", "g", "e", "r", "-", "A", "f", "t", "e", "r", "-", "S", "e", "t", "t", "l", "e">>>>,
     <<"AddTriggerAfterSwap", <<"H", "X", "-", "T", "r", "i", "g", "g", "e", "r", "-", "A", "f", "t", "e", "r", "-", "S", "w", "a", "p">>>>}

\* The triggers the calls of the method op have added, in order
RECURSIVE Added(_, _)
Added(calls, op) ==
    IF calls = <<>> THEN <<>>
    ELSE (IF Head(calls).op = op THEN Head(calls).arg ELSE <<>>)
            \o Added(Tail(calls), op)

\* The string s has the string sub in it
Contains(s, sub) ==
    \E i \in 1..(Len(s) - Len(sub) + 1) : SubSeq(s, i, i + Len(sub) - 1) = sub

\* C16: AddTrigger, AddTriggerAfterSettle and AddTriggerAfterSwap accumulate:
\* when called several times in one chain, each time with one or more
\* triggers, the header the method sets (HX-Trigger, HX-Trigger-After-Settle,
\* HX-Trigger-After-Swap) in the final Response contains the event name of
\* every trigger added by every call, not only those of the last call.
C16_TriggersAccumulate ==
    \A method \in TriggerMethods :
        LET added == Added(rcalls, method[1])
        IN  added # <<>> =>
                /\ ~HeadersFails(resp)
                /\ method[2] \in DOMAIN Headers(resp)
                /\ \A i \in 1..Len(added) :
                        Contains(Headers(resp)[method[2]], added[i].eventName)

\* AddTrigger was called with the event hello and then with the event
\* myEvent alone, and HX-Trigger has both
C16_Witness ==
    /\ \E i, j \in 1..Len(rcalls) :
            /\ i < j
            /\ rcalls[i] = RCall("AddTrigger", <<Trigger(Hello)>>, <<>>)
            /\ rcalls[j] = RCall("AddTrigger", <<Trigger(MyEvent)>>, <<>>)
            /\ \A k \in (j + 1)..Len(rcalls) : rcalls[k].op # "AddTrigger"
    /\ Contains(Headers(resp)[HeaderTrigger], Hello)
    /\ Contains(Headers(resp)[HeaderTrigger], MyEvent)

\* The event names of a list of triggers, joined by ", " in their order
RECURSIVE NamesJoined(_)
NamesJoined(triggers) ==
    IF triggers = <<>> THEN <<>>
    ELSE Head(triggers).eventName
            \o (IF Len(triggers) > 1 THEN <<",", " ">> ELSE <<>>)
            \o NamesJoined(Tail(triggers))

\* The JSON texts a member for the event name n may have as its value: the
\* empty string for a plain trigger of that name, the detail string or the
\* detail object for a trigger with a detail
MemberValues(triggers, n) ==
    {IF triggers[i].type = "triggerPlain" THEN <<"\"", "\"">>
     ELSE IF triggers[i].type = "triggerDetail"
          THEN jsonString(triggers[i].value)
          ELSE jsonValue(triggers[i].object) :
        i \in {j \in 1..Len(triggers) : triggers[j].eventName = n}}

\* The orders in which the elements of a set can be listed
Orders(S) ==
    {f \in [1..Cardinality(S) -> S] :
        \A i, j \in 1..Cardinality(S) : f[i] = f[j] => i = j}

\* The members of a JSON object, for the names in the given order
RECURSIVE MembersText(_, _)
MembersText(order, value) ==
    IF order = <<>> THEN <<>>
    ELSE <<"\"">> \o Head(order) \o <<"\"", ":">> \o value[Head(order)]
            \o (IF Len(order) > 1 THEN <<",">> ELSE <<>>)
            \o MembersText(Tail(order), value)

\* text is a JSON object with one member per event name of the triggers,
\* each with a value of a trigger of that name
IsObjectOf(text, triggers) ==
    LET names == {triggers[i].eventName : i \in 1..Len(triggers)}
        texts == UNION {MemberValues(triggers, n) : n \in names}
    IN  \E order \in Orders(names) :
            \E value \in [names -> texts] :
                /\ \A n \in names : value[n] \in MemberValues(triggers, n)
                /\ text = <<"{">> \o MembersText(order, value) \o <<"}">>

\* C17: if every trigger added for a header is a plain Trigger, the header
\* value is the event names joined by ", " in the order added (a single
\* Trigger("myEvent") gives "myEvent"); if at least one TriggerDetail or
\* TriggerObject is present, the value is one JSON object with one member
\* per event name, whose value is the detail string or object, and plain
\* triggers appear as members with the empty string as value.
C17_TriggerHeaderFormat ==
    \A method \in TriggerMethods :
        LET added == Added(rcalls, method[1])
        IN  added # <<>> =>
                /\ ~HeadersFails(resp)
                /\ method[2] \in DOMAIN Headers(resp)
                /\ IF \A i \in 1..Len(added) : added[i].type = "triggerPlain"
                   THEN Headers(resp)[method[2]] = NamesJoined(added)
                   ELSE IsObjectOf(Headers(resp)[method[2]], added)

\* The triggers of the README were added: a plain trigger alone gives
\* "myEvent" for one header, and a detail string and a detail object give
\* an object with the two members for another
C17_Witness ==
    /\ ~HeadersFails(resp)
    /\ HeaderTriggerAfterSwap \in DOMAIN Headers(resp)
    /\ Headers(resp)[HeaderTriggerAfterSwap] = MyEvent
    /\ HeaderTrigger \in DOMAIN Headers(resp)
    /\ Headers(resp)[HeaderTrigger] =
         <<"{", "\"", "h", "e", "l", "l", "o", "\"", ":", "\"", "w", "o", "r", "l", "d", "\"", ",", "\"", "m", "y", "E", "v", "e", "n", "t", "\"", ":", "{", "\"", "l", "e", "v", "e", "l", "\"", ":", "\"", "i", "n", "f", "o", "\"", ",", "\"", "m", "e", "s", "s", "a", "g", "e", "\"", ":", "\"", "H", "e", "r", "e", " ", "i", "s", " ", "a", " ", "M", "e", "s", "s", "a", "g", "e", "\"", "}", "}">>

\* C20: RenderHTML applies the HTMX headers (and status code) to the
\* response writer before writing the body, and the body written is exactly
\* the given HTML; if applying the headers fails, RenderHTML returns (0, err)
\* and writes no body bytes.
C20_HeadersBeforeBody ==
    [][IsCall("RenderHTML") =>
        LET html     == rcalls'[Len(rcalls')].arg[1]
            returns  == rcalls'[Len(rcalls')].arg[2]
            sets     == EventsOf(NewEvents, "Set")
            status   == EventsOf(NewEvents, "WriteHeader")
            bodies   == EventsOf(NewEvents, "Write")
        IN  IF WriteFails(resp)
            THEN /\ returns = [n |-> 0, err |-> TRUE]
                 /\ w' = w
            ELSE /\ ~returns.err
                 /\ {NewEvents[i].arg : i \in sets} = DOMAIN Headers(resp)
                 /\ \A k \in DOMAIN Headers(resp) :
                        w'.header[CanonicalMIMEHeaderKey(k)] = <<Headers(resp)[k]>>
                 /\ (ConfiguredCode(rcalls) # 0) =>
                        /\ status # {}
                        /\ w'.statusCode = ConfiguredCode(rcalls)
                 /\ bodies = {Len(NewEvents)}
                 /\ NewEvents[Len(NewEvents)].arg = html
                 /\ \A i \in sets \cup status : i < Len(NewEvents)
                 /\ w'.body = w.body \o html]_vars

\* A Response with a header was rendered, then got a trigger that cannot
\* be encoded and was rendered again: the writer got the header and then
\* the body, once
C20_Witness ==
    /\ Len(rcalls) = 4
    /\ rcalls[2].op = "RenderHTML"
    /\ rcalls[2].arg = <<HelloWorld, [n |-> 0, err |-> FALSE]>>
    /\ rcalls[4].op = "RenderHTML"
    /\ rcalls[4].arg[2] = [n |-> 0, err |-> TRUE]
    /\ w.body = HelloWorld
    /\ Len(w.events) = 2
    /\ w.events[1] = Event("Set", HeaderLocation)
    /\ w.events[2] = Event("Write", HelloWorld)

---------------------------------------------------------------------------
(* Properties of the request functions *)

\* The places of the lines of the request for the header named n, in any
\* case of its letters
LinesOf(n) == {i \in 1..Len(req.lines) : Lower(req.lines[i].name) = Lower(n)}

\* The least of a non-empty set of numbers
First(S) == CHOOSE i \in S : \A j \in S : i <= j

\* The header each getter reads
GetterHeader(fn) ==
    CASE fn = "GetCurrentURL" -> <<"H", "X", "-", "C", "u", "r", "r", "e", "n", "t", "-", "U", "R", "L">>
      [] fn = "GetPrompt" -> <<"H", "X", "-", "P", "r", "o", "m", "p", "t">>
      [] fn = "GetTarget" -> <<"H", "X", "-", "T", "a", "r", "g", "e", "t">>
      [] fn = "GetTriggerName" -> <<"H", "X", "-", "T", "r", "i", "g", "g", "e", "r", "-", "N", "a", "m", "e">>
      [] fn = "GetTrigger" -> <<"H", "X", "-", "T", "r", "i", "g", "g", "e", "r">>

\* The header each flag reads
FlagHeader(fn) ==
    CASE fn = "IsHTMX" -> <<"H", "X", "-", "R", "e", "q", "u", "e", "s", "t">>
      [] fn = "IsBoosted" -> <<"H", "X", "-", "B", "o", "o", "s", "t", "e", "d">>
      [] fn = "IsHistoryRestoreRequest" -> <<"H", "X", "-", "H", "i", "s", "t", "o", "r", "y", "-", "R", "e", "s", "t", "o", "r", "e", "-", "R", "e", "q", "u", "e", "s", "t">>

Getters == {"GetCurrentURL", "GetPrompt", "GetTarget", "GetTriggerName", "GetTrigger"}
Flags == {"IsHTMX", "IsBoosted", "IsHistoryRestoreRequest"}

\* C18: GetCurrentURL, GetPrompt, GetTarget, GetTriggerName and GetTrigger
\* return (v, true), where v is the first value of their header, exactly when
\* the header is present in the request (also when its value is the empty
\* string), and return ("", false) exactly when the header is absent.
C18_GettersReportPresence ==
    \A i \in 1..Len(got) :
        got[i].fn \in Getters =>
            LET lines == LinesOf(GetterHeader(got[i].fn))
            IN  IF lines = {} THEN got[i].result = <<<<>>, FALSE>>
                ELSE got[i].result = <<req.lines[First(lines)].value, TRUE>>

\* GetPrompt was called on a request that has HX-Prompt with the empty value
\* and returned ("", true)
C18_Witness ==
    /\ got # <<>>
    /\ got[1].fn = "GetPrompt"
    /\ got[1].result = <<<<>>, TRUE>>
    /\ \E i \in 1..Len(req.lines) : req.lines[i] = Line(<<"H", "X", "-", "P", "r", "o", "m", "p", "t">>, <<>>)

\* C19: IsHTMX, IsBoosted and IsHistoryRestoreRequest return true if and only
\* if the HX-Request, HX-Boosted or HX-History-Restore-Request header of the
\* request, respectively, has the exact value "true"; an absent header or
\* any other value (including "True" or "false") gives false, and the three
\* flags are independent of each other.
C19_FlagsAreExactlyTrue ==
    \A i \in 1..Len(got) :
        got[i].fn \in Flags =>
            LET lines == LinesOf(FlagHeader(got[i].fn))
            IN  got[i].result =
                    (lines # {} /\ req.lines[First(lines)].value = <<"t", "r", "u", "e">>)

\* IsBoosted was called on a request that has HX-Request "true" and
\* HX-Boosted "True", and returned false
C19_Witness ==
    /\ got # <<>>
    /\ got[1].fn = "IsBoosted"
    /\ got[1].result = FALSE
    /\ \E i, j \in 1..Len(req.lines) :
            /\ req.lines[i] = Line(<<"H", "X", "-", "R", "e", "q", "u", "e", "s", "t">>, <<"t", "r", "u", "e">>)
            /\ req.lines[j] = Line(<<"H", "X", "-", "B", "o", "o", "s", "t", "e", "d">>, <<"T", "r", "u", "e">>)

---------------------------------------------------------------------------
(* The remaining properties of the Response builder *)

\* The strategy SwapAfterEnd.Transition(true) was passed to call
IsReadmeExample(call) ==
    call.from = <<SwapAfterEnd, << Call("Transition", <<TRUE>>) >> >>

C22_FailedWriteLeavesWriter ==
    [][(IsCall("Write") /\ rcalls'[Len(rcalls')].arg[1]) =>
        /\ w' = w
        /\ NewEvents = <<>>]_vars

\* A Response with a location and the status code 286 got a trigger that
\* cannot be encoded, and its Write returned an error: the writer has no
\* header and no status code
C22_Witness ==
    /\ Len(rcalls) = 4
    /\ rcalls[1].op = "LocationWithContext"
    /\ rcalls[2] = RCall("StatusCode", <<StatusStopPolling>>, <<>>)
    /\ rcalls[3].op \in {"AddTrigger", "AddTriggerAfterSettle", "AddTriggerAfterSwap"}
    /\ rcalls[4] = RCall("Write", <<TRUE>>, <<>>)
    /\ w = NewWriter

\* The header-setting methods and the trigger methods
HeaderSetters ==
    {"Location", "LocationWithContext", "PushURL", "PreventPushURL", "Redirect",
     "Refresh", "ReplaceURL", "PreventReplaceURL", "Reswap", "Retarget", "Reselect"}
TriggerAdders == {"AddTrigger", "AddTriggerAfterSettle", "AddTriggerAfterSwap"}

\* The header of the trigger method op
TriggerHeader(op) ==
    (CHOOSE method \in TriggerMethods : method[1] = op)[2]

\* The maps a and b have the same headers but for the header h
SameBut(a, b, h) ==
    /\ (DOMAIN a) \ {h} = (DOMAIN b) \ {h}
    /\ \A k \in (DOMAIN a) \ {h} : a[k] = b[k]

\* The headers of the Response and its status code
HeadersNow == Headers(resp)
StatusNow  == resp.statusCode

\* C23: each builder method changes only its own output: a header setter
\* changes the value of exactly one header name and leaves every other
\* header, the trigger headers and the status code unchanged; AddTrigger,
\* AddTriggerAfterSettle and AddTriggerAfterSwap each affect only HX-Trigger,
\* HX-Trigger-After-Settle and HX-Trigger-After-Swap respectively;
\* StatusCode changes no header.
C23_OnlyItsOwnOutput ==
    [][\A op \in HeaderSetters \cup TriggerAdders \cup {"StatusCode"} :
        IsCall(op) =>
            \A before \in {HeadersNow}, after \in {HeadersNow'},
               status \in {StatusNow}, newStatus \in {StatusNow'} :
                LET call == rcalls'[Len(rcalls')]
                IN  /\ op \in HeaderSetters =>
                        /\ SameBut(before, after, HeaderWritten(op))
                        /\ HeaderWritten(op) \in DOMAIN after
                        /\ after[HeaderWritten(op)] = ValueGiven(call)
                        /\ newStatus = status
                    /\ op \in TriggerAdders =>
                        /\ SameBut(before, after, TriggerHeader(op))
                        /\ TriggerHeader(op) \in DOMAIN after
                        /\ newStatus = status
                    /\ op = "StatusCode" =>
                        /\ after = before
                        /\ newStatus = call.arg[1]]_vars

\* A Response with the status code 286 and a trigger got PreventReplaceURL,
\* and has the status code, the trigger header and HX-Replace-Url only
C23_Witness ==
    /\ Len(rcalls) = 3
    /\ rcalls[1] = RCall("StatusCode", <<StatusStopPolling>>, <<>>)
    /\ rcalls[2].op = "AddTrigger"
    /\ rcalls[3].op = "PreventReplaceURL"
    /\ DOMAIN Headers(resp) = {HeaderTrigger, HeaderReplaceUrl}
    /\ resp.statusCode = StatusStopPolling

\* The way the handler got its second Response: "Copy", "Clone", or <<>>
\* when it has one Response only
Derivation ==
    LET made == {i \in 1..Len(rcalls) : rcalls[i].op \in {"Copy", "Clone"}}
    IN  IF made = {} THEN <<>> ELSE rcalls[CHOOSE i \in made : TRUE].op

\* The headers Headers() returns for the other Response, and the header its
\* Write leaves on a new writer
HeadersOfOther == Headers(orig[1])
WritesOfOther  == Write(orig[1], NewWriter).header

\* C24: header setters mutate shared state when Clone is not used: for a
\* Response and any value copy of it, a header-setting method called on one
\* of them changes the headers that Headers() and Write produce for the
\* other as well, because they share one header map; only Clone() yields a
\* Response whose header changes stay local.
C24_SharedHeaderMap ==
    [][\A op \in HeaderSetters :
        (IsCall(op) /\ orig # <<>>) =>
            \A before \in {HeadersOfOther}, other \in {HeadersOfOther'},
               own \in {HeadersNow'}, written \in {WritesOfOther'} :
                LET call == rcalls'[Len(rcalls')]
                    h    == HeaderWritten(op)
                IN  /\ Derivation = "Copy" =>
                        /\ h \in DOMAIN other
                        /\ other[h] = ValueGiven(call)
                        /\ other = own
                        /\ HeaderGet(written, h) = ValueGiven(call)
                    /\ Derivation = "Clone" =>
                        /\ other = before
                        /\ orig'[1].headers # resp'.headers]_vars

\* The handler took a copy of a Response that had HX-Reswap only, called
\* Reselect on the copy, and the Response copied has HX-Reselect too
C24_Witness ==
    /\ Len(rcalls) = 3
    /\ rcalls[1].op = "Reswap"
    /\ rcalls[2].op = "Copy"
    /\ rcalls[3] = RCall("Reselect", <<Messages>>, <<>>)
    /\ DOMAIN Headers(orig[1]) = {HeaderReswap, HeaderReselect}
    /\ Headers(orig[1])[HeaderReselect] = Messages

\* The fields of a LocationContext in the order of the struct, each with the
\* name of its JSON member
ContextFields ==
    << <<"Source", <<"s", "o", "u", "r", "c", "e">>>>, <<"Event", <<"e", "v", "e", "n", "t">>>>, <<"Handler", <<"h", "a", "n", "d", "l", "e", "r">>>>, <<"Target", <<"t", "a", "r", "g", "e", "t">>>>,
       <<"Swap", <<"s", "w", "a", "p">>>>, <<"Values", <<"v", "a", "l", "u", "e", "s">>>>, <<"Headers", <<"h", "e", "a", "d", "e", "r", "s">>>>, <<"Select", <<"s", "e", "l", "e", "c", "t">>>> >>

\* The field f of the context is not empty
NonEmpty(ctx, f) ==
    CASE f \in {"Values", "Headers"} -> DOMAIN ctx[f] # {}
      [] f = "Swap" -> ctx.Swap # SwapDefault
      [] OTHER -> ctx[f] # <<>>

\* The JSON text of the field f of the context
FieldText(ctx, f) ==
    IF f \in {"Values", "Headers"} THEN jsonStringMap(ctx[f]) ELSE jsonString(ctx[f])

\* The JSON object with the member path and a member for each non-empty
\* field of the context
ExpectedLocation(path, ctx) ==
    LET set   == SelectSeq(ContextFields, LAMBDA f : NonEmpty(ctx, f[1]))
        order == <<<<"p", "a", "t", "h">>>> \o [i \in 1..Len(set) |-> set[i][2]]
        value == [n \in {order[i] : i \in 1..Len(order)} |->
                    IF n = <<"p", "a", "t", "h">> THEN jsonString(path)
                    ELSE FieldText(ctx, set[CHOOSE i \in 1..Len(set) : set[i][2] = n][1])]
    IN  <<"{">> \o MembersText(order, value) \o <<"}">>

\* The value of the test: the path "/hello", the target "#testdiv" and the
\* source "HELLO"
TestLocation ==
    <<"{", "\"", "p", "a", "t", "h", "\"", ":", "\"", "/", "h", "e", "l", "l", "o", "\"", ",", "\"", "s", "o", "u", "r", "c", "e", "\"", ":", "\"", "H", "E", "L", "L", "O", "\"", ",", "\"", "t", "a", "r", "g", "e", "t", "\"", ":", "\"", "#", "t", "e", "s", "t", "d", "i", "v", "\"", "}">>

\* The last call that set HX-Location was LocationWithContext(path, ctx)
LocationContextSet(path, ctx) ==
    \E i \in 1..Len(rcalls) :
        /\ rcalls[i] = RCall("LocationWithContext", <<path, ctx>>, <<>>)
        /\ \A j \in (i + 1)..Len(rcalls) :
                rcalls[j].op \notin {"Location", "LocationWithContext"}

\* C25: LocationWithContext(path, ctx) sets HX-Location to a JSON object
\* that always has the member "path" with the given path and has a member
\* for source, event, handler, target, swap, values, headers, select exactly
\* when that field of the context is not empty (swap being the string of
\* ctx.Swap, left out for SwapDefault); the path "/hello" with the target
\* "#testdiv" and the source "HELLO" gives the members path, source and
\* target and no other.
C25_LocationObject ==
    \A path \in URLs, ctx \in contexts :
        LocationContextSet(path, ctx) =>
            \A headers \in {Headers(resp)} :
                /\ HeaderLocation \in DOMAIN headers
                /\ headers[HeaderLocation] = ExpectedLocation(path, ctx)
                /\ (path = <<"/", "h", "e", "l", "l", "o">> /\ ctx = TestContext) =>
                        headers[HeaderLocation] = TestLocation

\* LocationWithContext was called with the context of the test, and with a
\* context that has a swap strategy and values and no other field
C25_Witness ==
    /\ Len(rcalls) = 2
    /\ rcalls[1].op = "LocationWithContext"
    /\ rcalls[1].arg[2] = ContextWith({"Swap", "Values"})
    /\ rcalls[2] = RCall("LocationWithContext", <<<<"/", "h", "e", "l", "l", "o">>, TestContext>>, <<>>)
    /\ Headers(resp)[HeaderLocation] = TestLocation

---------------------------------------------------------------------------
(* The selectors of ScrollOn and ShowOn *)

\* The string s ends with the string t
EndsWith(s, t) ==
    /\ Len(s) >= Len(t)
    /\ SubSeq(s, Len(s) - Len(t) + 1, Len(s)) = t

\* The string s, which ends with t, without t and the space before it
WithoutEnd(s, t) == TrimSpace(SubSeq(s, 1, Len(s) - Len(t)))

\* C26: selector strings are opaque pass-through values: for any selector
\* sel (with spaces, as "#list .item", or with text like " show:x"),
\* ScrollOn(sel, d) and ShowOn(sel, d) add the token "scroll:<sel>:<d>" or
\* "show:<sel>:<d>"; a later modifier call removes that selector text
\* completely when it sets the same key, and leaves it completely intact
\* when it sets a different key.
C26_SelectorsAreOpaque ==
    \A c \in DOMAIN val :
        LET n == Len(chain[c])
        IN  /\ (~panicked /\ n >= 1 /\ HasSelector(chain[c][n])) =>
                    EndsWith(val[c], TableToken(chain[c][n]))
            /\ (~panicked /\ n >= 2 /\ HasSelector(chain[c][n - 1])) =>
                    LET token == TableToken(chain[c][n - 1])
                        recv  == chain[c][n].recv
                    IN  IF OpKey(chain[c][n].op) = OpKey(chain[c][n - 1].op)
                        THEN val[c] = join(<<WithoutEnd(recv, token),
                                             TableToken(chain[c][n])>>)
                        ELSE Contains(val[c], token)

---------------------------------------------------------------------------
(* The trigger lists *)

\* The trigger method of a call that derives a Response, with its header
DerivedMethodOf(op) ==
    CHOOSE method \in TriggerMethods :
        method[1] = CASE op = "DeriveAddTrigger" -> "AddTrigger"
                      [] op = "DeriveAddTriggerAfterSettle" -> "AddTriggerAfterSettle"
                      [] op = "DeriveAddTriggerAfterSwap" -> "AddTriggerAfterSwap"

\* C27: the trigger lists of Responses derived from a common base are
\* independent: for any Response x built by any number of AddTrigger calls,
\* if y1 := x.AddTrigger(a) and y2 := x.AddTrigger(b) are both derived from
\* x, in either order, then the HX-Trigger of y1 has a and not b, that of y2
\* has b and not a, and that of x is unchanged (likewise for
\* AddTriggerAfterSettle and AddTriggerAfterSwap): an append to the slice of
\* x never overwrites an element seen through another derived Response.
C27_DerivedTriggersIndependent ==
    /\ \A i \in 1..Len(derived) :
            LET call   == rcalls[derived[i].call]
                method == DerivedMethodOf(call.op)
                before == SubSeq(rcalls, 1, derived[i].call - 1)
            IN  /\ method[2] \in DOMAIN Headers(derived[i].response)
                /\ Headers(derived[i].response)[method[2]]
                        = NamesJoined(Added(before, method[1]) \o call.arg)
    /\ \A method \in TriggerMethods :
            Added(rcalls, method[1]) # <<>> =>
                /\ method[2] \in DOMAIN Headers(resp)
                /\ Headers(resp)[method[2]] = NamesJoined(Added(rcalls, method[1]))

\* The JSON text of the detail of a trigger: the empty string for a plain
\* trigger
DetailText(trigger) ==
    IF trigger.type = "triggerPlain" THEN <<"\"", "\"">>
    ELSE IF trigger.type = "triggerDetail" THEN jsonString(trigger.value)
    ELSE jsonValue(trigger.object)

\* The last trigger of the list that has the event name n
LastNamed(triggers, n) ==
    triggers[Last({i \in 1..Len(triggers) : triggers[i].eventName = n})]

\* text is a JSON object with one member per event name of the triggers,
\* each with the detail of the last trigger of that name
IsObjectOfLast(text, triggers) ==
    LET names == {triggers[i].eventName : i \in 1..Len(triggers)}
        value == [n \in names |-> DetailText(LastNamed(triggers, n))]
    IN  \E order \in Orders(names) :
            text = <<"{">> \o MembersText(order, value) \o <<"}">>

\* C28: when several triggers with the same event name are added to the
\* same trigger header, the header has for that name the detail of the
\* trigger added last; a TriggerDetail or TriggerObject added after a plain
\* Trigger of the same name is emitted with its detail value, and the
\* result depends on nothing but the order of addition.
C28_LastAddedDetailWins ==
    \A method \in TriggerMethods :
        LET added == Added(rcalls, method[1])
        IN  (/\ \E i \in 1..Len(added) : added[i].type # "triggerPlain"
             /\ ~HeadersFails(resp)) =>
                /\ method[2] \in DOMAIN Headers(resp)
                /\ IsObjectOfLast(Headers(resp)[method[2]], added)

\* C29: Headers(), and so Write, has HX-Trigger, HX-Trigger-After-Settle or
\* HX-Trigger-After-Swap only if at least one trigger has been added for
\* that header; a Response to which no trigger was added, also one on which
\* a trigger method was called with no argument, emits no such header and
\* never one with an empty value.
C29_NoEmptyTriggerHeader ==
    \A method \in TriggerMethods :
        /\ ~HeadersFails(resp) =>
                \A headers \in {Headers(resp)} :
                    method[2] \in DOMAIN headers =>
                        /\ Added(rcalls, method[1]) # <<>>
                        /\ headers[method[2]] # <<>>
        /\ \A key \in {CanonicalMIMEHeaderKey(method[2])} :
                key \in DOMAIN w.header =>
                    /\ Added(rcalls, method[1]) # <<>>
                    /\ w.header[key] # << <<>> >>

====
